---- MODULE Spec2Model ----
(***************************************************************************)
(* HORA: interval-to-hourly-bucket aggregation.                            *)
(*                                                                         *)
(* A table of rows (Date, In Room, Out Room, Count) is bucketized into     *)
(* per-date rows of 24 hourly cells (presence: weighted indicator,         *)
(* duration: weighted minutes of overlap), rolled up by weekday or by      *)
(* week-of-month, and normalized.                                          *)
(*                                                                         *)
(* Representation.  A calendar date is a day number, 0 = 2025-01-01 (a     *)
(* Wednesday).  A clock time 'HH:MM' is the minute of the day, 0..1439.    *)
(* A timestamp is Date * 1440 + minute.  Duration cells are kept in exact  *)
(* minutes (the code holds minutes / 60 as a float number of hours).       *)
(***************************************************************************)
EXTENDS Integers, Sequences, FiniteSets, TLC

VARIABLES
    df,              \* the cleaned table the pages read (session key crna_data)
    pc,              \* "input", or the operation that has been applied; in a session, what the last run left
    raised,          \* TRUE when the operation ended in an exception
    parse_in,        \* the table handed to _parse_time_series
    parsed,          \* its result
    presence,        \* result of _compute_presence_matrix
    heatmap,         \* result of _compute_normalized_heatmap (presence)
    weeks,           \* presence rows with the week_of_month column (sce3)
    selected_wk,     \* the week label chosen in the select box
    week_hm,         \* result of _compute_week_hm_data
    duration,        \* result of _compute_duration_matrix (function.py, sce4.py)
    df_full,         \* sce5: rows + 24 duration columns + week_of_month
    hm_matrix,       \* sce5: the heatmap matrix of the selected week
    monthly_summary, \* result of _compute_monthly_summary
    weekday_total,   \* sce2: _weekday_total_summary, reindexed (df2)
    uploaded,        \* step1: the frame read from the uploaded file
    has_crna,        \* whether the session holds the key crna_data
    cc,              \* step1: whether a Count column was selected
    total_errors,    \* step1: the errors counted by the run, 0 without a submit
    summed,       \* result of sce4._weekday_total_summary
    frames,       \* the frame objects of the last bucketizer call, the caller table first
    cache,        \* st.cache_data: the entries of each memoized function
    history,      \* the (arguments, result) pairs of the memoized calls made
    call,         \* the last memoized call: its function, and whether the cache served it
    session_state, \* st.session_state: the keys other than crna_data, with their values
    related       \* the bucketizer results for the tables related to df

vars == <<df, pc, raised, parse_in, parsed, presence, heatmap, weeks,
          selected_wk, week_hm, duration, df_full, hm_matrix,
          monthly_summary, weekday_total, uploaded, has_crna, cc,
          total_errors,
          summed,
          frames,
          cache,
          history,
          call,
          session_state,
          related>>

----------------------------------------------------------------------------
(* Program constants *)

MinPerHour == 60
HoursPerDay == 24
MinPerDay == 1440

_WEEKDAY_ORDER == <<"Sunday", "Monday", "Tuesday", "Wednesday", "Thursday", "Friday", "Saturday">>
_WEEKS_LIST == <<"Week 1", "Week 2", "Week 3", "Week 4", "Week 5">>

Hours == 0 .. (HoursPerDay - 1)

\* a null cell of In Room / Out Room
NULL == 0 - 1

\* the empty string in a cell of In Room / Out Room
EMPTY == 0 - 2

----------------------------------------------------------------------------
(* Bounds of the checked inputs *)

SlotsPerHour == 2     \* clock times per hour in the fine single-row tables
MaxCount == 2         \* Count ranges over 1..MaxCount
MaxRows == 2          \* rows of a coarse table
LastDate == 58        \* calendar tables take every date 0..LastDate

----------------------------------------------------------------------------
(* Calendar: what pandas/polars compute from a date *)

\* lengths of the months from January 2025 on
MonthLengths == <<31, 28, 31, 30, 31, 30>>

RECURSIVE MonthFrom(_, _)
MonthFrom(d, m) ==
    IF d < MonthLengths[m] THEN m ELSE MonthFrom(d - MonthLengths[m], m + 1)

RECURSIVE DayFrom(_, _)
DayFrom(d, m) ==
    IF d < MonthLengths[m] THEN d + 1 ELSE DayFrom(d - MonthLengths[m], m + 1)

\* Date.dt.strftime('%Y-%m'): the month, numbered from 1 = 2025-01
strftime_Ym(d) == MonthFrom(d, 1)

\* Date.dt.day
dt_day(d) == DayFrom(d, 1)

\* strftime('%A'): English day name; day 0 is a Wednesday
strftime_A(d) == _WEEKDAY_ORDER[((d + 3) % 7) + 1]

----------------------------------------------------------------------------
(* Generic helpers *)

Max(a, b) == IF a >= b THEN a ELSE b
Min(a, b) == IF a <= b THEN a ELSE b

RECURSIVE SortedSeq(_)
SortedSeq(S) ==
    IF S = {} THEN <<>>
    ELSE LET m == CHOOSE x \in S : \A y \in S : x <= y
         IN <<m>> \o SortedSeq(S \ {m})

RECURSIVE SelectRows(_, _)
SelectRows(rows, keep) ==
    IF rows = <<>> THEN <<>>
    ELSE IF Head(rows) \in keep THEN <<Head(rows)>> \o SelectRows(Tail(rows), keep)
         ELSE SelectRows(Tail(rows), keep)

----------------------------------------------------------------------------
(* _parse_time_series (function.py, sce2.py, sce3.py, sce4.py) *)

\* the when/then/otherwise on Out_dt
ParseOut(in_dt, out_dt) ==
    IF out_dt < in_dt THEN out_dt + MinPerDay ELSE out_dt

_parse_time_series(table) ==
    LET temp == SelectRows(table, {r \in {table[i] : i \in 1 .. Len(table)} :
                                      r.In_Room # NULL /\ r.Out_Room # NULL})
    IN [i \in 1 .. Len(temp) |->
          LET r == temp[i]
              in_dt == r.Date * MinPerDay + r.In_Room
              out_dt == r.Date * MinPerDay + r.Out_Room
          IN [Date |-> r.Date, In_Room |-> r.In_Room, Out_Room |-> r.Out_Room,
              Count |-> r.Count,
              In_dt |-> in_dt, Out_dt |-> ParseOut(in_dt, out_dt)]]

\* str.strptime(pl.Datetime, format='%Y-%m-%d %H:%M') is strict: a text
\* without a time, Date + ' ' + '', does not match the format and raises
ParseRaises(table) ==
    \E i \in 1 .. Len(table) :
        /\ table[i].In_Room # NULL /\ table[i].Out_Room # NULL
        /\ (table[i].In_Room = EMPTY \/ table[i].Out_Room = EMPTY)

----------------------------------------------------------------------------
(* The bucketizers of function.py / sce2.py / sce3.py / sce4.py *)

\* df.loc[df['Out_dt'] <= df['In_dt'], 'Out_dt'] += pd.Timedelta(days=1)
CrossDay_before(in_dt, out_dt) ==
    IF out_dt < in_dt THEN out_dt + MinPerDay ELSE out_dt

CrossDay(in_dt, out_dt) ==
    IF out_dt <= in_dt THEN out_dt + MinPerDay ELSE out_dt

WithTimes(table) ==
    [i \in 1 .. Len(table) |->
        LET r == table[i]
            in_dt == r.Date * MinPerDay + r.In_Room
            out_dt == r.Date * MinPerDay + r.Out_Room
        IN [Date |-> r.Date, Count |-> r.Count,
            In_dt |-> in_dt, Out_dt |-> CrossDay(in_dt, out_dt)]]

\* the while loop of hour_range
RECURSIVE HourLoop(_, _)
HourLoop(cur, end) ==
    IF cur < end THEN <<cur>> \o HourLoop(cur + MinPerHour, end) ELSE <<>>

\* hour_range without the truncation of In_dt to the hour
hour_range_nofloor(row) == HourLoop(row.In_dt, row.Out_dt)

hour_range(row) ==
    HourLoop((row.In_dt \div MinPerHour) * MinPerHour, row.Out_dt)

\* calc_duration without the cut at the end of the hour
calc_duration_noclip(in_dt, out_dt, count, hour_ts) ==
    LET overlap_start == Max(in_dt, hour_ts)
        dur == out_dt - overlap_start
    IN Max(dur, 0) * count

calc_duration(in_dt, out_dt, count, hour_ts) ==
    LET hour_start == hour_ts
        hour_end == hour_start + MinPerHour
        overlap_start == Max(in_dt, hour_start)
        overlap_end == Min(out_dt, hour_end)
        dur == overlap_end - overlap_start
    IN Max(dur, 0) * count

\* df.explode('hour_ts') with the derived Date, hour and duration columns
RECURSIVE explode(_)
explode(rows) ==
    IF rows = <<>> THEN <<>>
    ELSE LET r == Head(rows)
             hs == hour_range(r)
         IN [i \in 1 .. Len(hs) |->
                [Date |-> hs[i] \div MinPerDay,
                 hour |-> (hs[i] % MinPerDay) \div MinPerHour,
                 Count |-> r.Count,
                 duration |-> calc_duration(r.In_dt, r.Out_dt, r.Count, hs[i])]]
            \o explode(Tail(rows))

\* groupby(['Date','hour'])[col].sum() for one group; 0 stands for fillna(0)
RECURSIVE GroupSum(_, _, _, _)
GroupSum(ex, d, h, col) ==
    IF ex = <<>> THEN 0
    ELSE (IF Head(ex).Date = d /\ Head(ex).hour = h THEN Head(ex)[col] ELSE 0)
         + GroupSum(Tail(ex), d, h, col)

\* Pivot with the weekday taken from the first date for every row
Pivot_firstlabel(ex, col) ==
    LET index == SortedSeq({ex[i].Date : i \in 1 .. Len(ex)})
    IN [k \in 1 .. Len(index) |->
          [Date |-> index[k],
           hour |-> [h \in Hours |-> GroupSum(ex, index[k], h, col)],
           weekday |-> strftime_A(index[1])]]

\* pivot(index='Date', columns='hour'), the 24 columns and the weekday column
Pivot(ex, col) ==
    LET index == SortedSeq({ex[i].Date : i \in 1 .. Len(ex)})
    IN [k \in 1 .. Len(index) |->
          [Date |-> index[k],
           hour |-> [h \in Hours |-> GroupSum(ex, index[k], h, col)],
           weekday |-> strftime_A(index[k])]]

\* the presence matrix that counts the rows of a cell
_compute_presence_matrix_size(table) ==
    Pivot(explode(WithTimes([k \in 1 .. Len(table) |-> [table[k] EXCEPT !.Count = 1]])),
          "Count")

_compute_presence_matrix(table) == Pivot(explode(WithTimes(table)), "Count")

_compute_duration_matrix(table) == Pivot(explode(WithTimes(table)), "duration")

\* df.apply(hour_range, axis=1) on a frame without rows returns a frame, and
\* assigning a frame to the single column 'hour_ts' raises
BucketizerRaises(table) == table = <<>>

----------------------------------------------------------------------------
(* Frame objects of a bucketizer call.  A store is the sequence of the     *)
(* frames alive in the call; the table the caller passes in is object 1.   *)

SourceRef == 1

\* the same object handed back in place of a new one
to_pandas_sameobject(store, ref) == [store |-> store, ref |-> ref]

\* pl.DataFrame.to_pandas(): a new pandas frame holding the rows of the
\* polars frame
to_pandas(store, ref) == [store |-> Append(store, store[ref]), ref |-> Len(store) + 1]

\* pd.DataFrame.copy(), and likewise dropna() and reset_index(drop=True):
\* a new frame
copy(store, ref) == [store |-> Append(store, store[ref]), ref |-> Len(store) + 1]

dropna(store, ref) ==
    LET rows == store[ref]
        kept == SelectRows(rows, {r \in {rows[i] : i \in 1 .. Len(rows)} :
                                     r.In_Room # NULL /\ r.Out_Room # NULL})
    IN [store |-> Append(store, kept), ref |-> Len(store) + 1]

\* df[column] = values on the object ref
setitem(store, ref, rows) == [store EXCEPT ![ref] = rows]

\* df['In_dt'] = ..., df['Out_dt'] = ..., df.loc[..., 'Out_dt'] += 1 day
AssignTimes(rows) ==
    [i \in 1 .. Len(rows) |->
        LET r == rows[i]
            in_dt == r.Date * MinPerDay + r.In_Room
            out_dt == r.Date * MinPerDay + r.Out_Room
        IN [Date |-> r.Date, In_Room |-> r.In_Room, Out_Room |-> r.Out_Room,
            Count |-> r.Count, In_dt |-> in_dt, Out_dt |-> CrossDay(in_dt, out_dt)]]

\* _compute_presence_matrix: df = df.to_pandas(); df = df.copy(); the column
\* assignments on df
presence_frames(table) ==
    LET a == to_pandas(<<table>>, SourceRef)
        b == copy(a.store, a.ref)
    IN setitem(b.store, b.ref, AssignTimes(b.store[b.ref]))

\* _compute_duration_matrix (function.py, sce4.py): df = df.to_pandas(); the
\* column assignments on df
duration_frames(table) ==
    LET a == to_pandas(<<table>>, SourceRef)
    IN setitem(a.store, a.ref, AssignTimes(a.store[a.ref]))

\* temp[col].astype(str).str.slice(0, 5) of an 'HH:MM' text
str_slice5(t) == t

\* sce5._compute_duration_matrix: temp = df.dropna(...).reset_index(drop=True)
\* .copy(); temp['In Room'] and temp['Out Room'] are assigned on temp
sce5_frames(table) ==
    LET a == dropna(<<table>>, SourceRef)
        b == copy(a.store, a.ref)
        c == copy(b.store, b.ref)
        temp == c.store[c.ref]
    IN setitem(c.store, c.ref,
               [i \in 1 .. Len(temp) |->
                   [temp[i] EXCEPT !.In_Room = str_slice5(@), !.Out_Room = str_slice5(@)]])

----------------------------------------------------------------------------

(* _compute_normalized_heatmap (function.py, sce2.py) *)

\* polars round(): nearest integer of n / d for n >= 0, d > 0
round(n, d) == (2 * n + d) \div (2 * d)

\* group_by('weekday') sums of one weekday; 0 for a weekday without rows
RECURSIVE WeekdaySum(_, _, _)
WeekdaySum(rows, w, h) ==
    IF rows = <<>> THEN 0
    ELSE (IF Head(rows).weekday = w THEN Head(rows).hour[h] ELSE 0)
         + WeekdaySum(Tail(rows), w, h)

\* day_counts: the dates of df_with_time, grouped by weekday and counted
DayCountsOfData(df_with_time, w) ==
    Cardinality({d \in {df_with_time[i].Date : i \in 1 .. Len(df_with_time)} :
                    strftime_A(d) = w})

\* (col / count).fill_nan(0).round().cast(Int64); a positive sum over a zero
\* count is infinite and has no integer value, written as -1
NormalizeCell(n, d) ==
    IF d = 0 THEN (IF n = 0 THEN 0 ELSE 0 - 1) ELSE round(n, d)

_compute_normalized_heatmap(df_with_time, start_date, end_date) ==
    [k \in 1 .. Len(_WEEKDAY_ORDER) |->
        LET w == _WEEKDAY_ORDER[k]
        IN [weekday |-> w,
            hour |-> [h \in Hours |->
                        NormalizeCell(WeekdaySum(df_with_time, w, h),
                                      DayCountsOfData(df_with_time, w))]]]

\* pl.DataFrame({'date': []}) has no temporal type, so .dt.strftime raises
HeatmapRaises(df_with_time) == df_with_time = <<>>

----------------------------------------------------------------------------
(* _compute_monthly_summary *)

\* '%b' of the months from January 2025 on, '%y' of 2025
MonthAbbr == <<"Jan", "Feb", "Mar", "Apr", "May", "Jun">>

\* Date.dt.strftime('%b %y')
strftime_by(d) == <<MonthAbbr[MonthFrom(d, 1)], 25>>

\* the rows of one (Month, MonthLabel) group
MonthGroup(table, month) ==
    SelectRows(table, {r \in {table[i] : i \in 1 .. Len(table)} :
                          strftime_Ym(r.Date) = month})

RECURSIVE CountSum(_)
CountSum(rows) ==
    IF rows = <<>> THEN 0 ELSE Head(rows).Count + CountSum(Tail(rows))

\* function.py: group_by(['Month', 'MonthLabel']).agg(pl.count()).sort('Month')
_compute_monthly_summary(table) ==
    LET index == SortedSeq({strftime_Ym(table[i].Date) : i \in 1 .. Len(table)})
    IN [k \in 1 .. Len(index) |->
          LET group == MonthGroup(table, index[k])
          IN [Month |-> index[k],
              MonthLabel |-> strftime_by(group[1].Date),
              Count |-> Len(group)]]

\* sce2.py, sce4.py: the same with agg(pl.col('Count').sum())
sce2_compute_monthly_summary(table) ==
    LET index == SortedSeq({strftime_Ym(table[i].Date) : i \in 1 .. Len(table)})
    IN [k \in 1 .. Len(index) |->
          LET group == MonthGroup(table, index[k])
          IN [Month |-> index[k],
              MonthLabel |-> strftime_by(group[1].Date),
              Count |-> CountSum(group)]]

----------------------------------------------------------------------------
(* _weekday_total_summary (function.py, sce2.py) *)

\* .sort('weekday') orders the day names as strings
SortedWeekdayNames ==
    <<"Friday", "Monday", "Saturday", "Sunday", "Thursday", "Tuesday", "Wednesday">>

\* the names of S that are in _WEEKDAY_ORDER, in string order
RECURSIVE SortByWeekday(_, _)
SortByWeekday(S, k) ==
    IF k > Len(SortedWeekdayNames) THEN <<>>
    ELSE (IF SortedWeekdayNames[k] \in S THEN <<SortedWeekdayNames[k]>> ELSE <<>>)
         \o SortByWeekday(S, k + 1)

RECURSIVE sum_horizontal_upto(_, _)
sum_horizontal_upto(hour, h) ==
    IF h < 0 THEN 0 ELSE hour[h] + sum_horizontal_upto(hour, h - 1)

\* pl.sum_horizontal(hour_cols)
sum_horizontal(hour) == sum_horizontal_upto(hour, HoursPerDay - 1)

\* result: the hourly sums by weekday, one row per weekday of df_with_time
TotalResult(df_with_time) ==
    LET names == SortByWeekday({df_with_time[i].weekday : i \in 1 .. Len(df_with_time)}, 1)
    IN [k \in 1 .. Len(names) |->
          [weekday |-> names[k],
           hour |-> [h \in Hours |-> WeekdaySum(df_with_time, names[k], h)]]]

\* day_counts: the dates of [start_date, end_date] counted by weekday, one
\* row per weekday of the range
TotalDayCounts(start_date, end_date) ==
    LET names == SortByWeekday({strftime_A(d) : d \in start_date .. end_date}, 1)
    IN [k \in 1 .. Len(names) |->
          [weekday |-> names[k],
           count |-> Cardinality({d \in start_date .. end_date : strftime_A(d) = names[k]})]]

\* sum_horizontal(hour_cols) / 24 / day_counts.get_column('count') pairs the
\* rows of result with the count series by position; a series of another
\* length than the frame (and not of length 1) cannot be combined: polars
\* raises
WeekdayTotalRaises(df_with_time, start_date, end_date) ==
    LET n == Len(TotalResult(df_with_time))
        m == Len(TotalDayCounts(start_date, end_date))
    IN n # m /\ m # 1

\* the rows (weekday, Total); Total = num / den is kept as the pair
_weekday_total_summary(df_with_time, start_date, end_date) ==
    LET result == TotalResult(df_with_time)
        day_counts == TotalDayCounts(start_date, end_date)
    IN [k \in 1 .. Len(result) |->
          [weekday |-> result[k].weekday,
           num |-> sum_horizontal(result[k].hour),
           den |-> HoursPerDay * day_counts[IF Len(day_counts) = 1 THEN 1 ELSE k].count]]

\* .set_index('weekday').reindex(_WEEKDAY_ORDER): the seven weekdays in
\* order, a weekday without a row getting NaN, written as den = 0
reindex_WEEKDAY_ORDER(rows) ==
    [k \in 1 .. Len(_WEEKDAY_ORDER) |->
        LET w == _WEEKDAY_ORDER[k]
            hit == {i \in 1 .. Len(rows) : rows[i].weekday = w}
        IN IF hit = {} THEN [weekday |-> w, num |-> 0, den |-> 0]
           ELSE rows[CHOOSE i \in hit : TRUE]]

----------------------------------------------------------------------------
(* sce4._weekday_total_summary *)

\* Total = sum_horizontal(hour_cols), summed by weekday, the groups filtered
\* to _WEEKDAY_ORDER and sorted by name
RECURSIVE WeekdayTotals(_, _)
WeekdayTotals(rows, w) ==
    IF rows = <<>> THEN 0
    ELSE (IF Head(rows).weekday = w THEN sum_horizontal(Head(rows).hour) ELSE 0)
         + WeekdayTotals(Tail(rows), w)

sce4_weekday_total_summary(df_with_time) ==
    LET names == SortByWeekday({df_with_time[i].weekday : i \in 1 .. Len(df_with_time)}, 1)
    IN [k \in 1 .. Len(names) |->
          [weekday |-> names[k], Total |-> WeekdayTotals(df_with_time, names[k])]]

----------------------------------------------------------------------------
(* sce4._compute_normalized_heatmap *)

\* raw: the hourly sums by weekday, one row per weekday of df_with_time in
\* string order; day_counts: the dates of [start_date, end_date] counted by
\* weekday, one row per weekday of the range in string order.  The division
\* pl.col(col) / day_counts.get_column('count') pairs them by position, and
\* raises when the series has another length than raw (and not length 1).
sce4_HeatmapRaises(df_with_time, start_date, end_date) ==
    LET n == Len(TotalResult(df_with_time))
        m == Len(TotalDayCounts(start_date, end_date))
    IN n # m /\ m # 1

\* (col / count).round().cast(Int64); the cells of df_with_time are minutes
\* here, so hours / count is minutes / (60 * count)
sce4_compute_normalized_heatmap(df_with_time, start_date, end_date) ==
    LET raw == TotalResult(df_with_time)
        day_counts == TotalDayCounts(start_date, end_date)
    IN [k \in 1 .. Len(raw) |->
          LET count == day_counts[IF Len(day_counts) = 1 THEN 1 ELSE k].count
          IN [weekday |-> raw[k].weekday,
              hour |-> [h \in Hours |-> round(raw[k].hour[h], MinPerHour * count)]]]

\* df.get_column('Date').min() and .max() of the source table
RECURSIVE MinDate(_)
MinDate(table) ==
    IF Len(table) = 1 THEN table[1].Date
    ELSE Min(Head(table).Date, MinDate(Tail(table)))

RECURSIVE MaxDate(_)
MaxDate(table) ==
    IF Len(table) = 1 THEN table[1].Date
    ELSE Max(Head(table).Date, MaxDate(Tail(table)))

----------------------------------------------------------------------------
(* Week-of-month: sce3.week_analysis and sce5._assign_month_and_week *)

\* the when/then chain on the day of the month
week_of_month(day) ==
    IF day <= 7 THEN "Week 1"
    ELSE IF day <= 14 THEN "Week 2"
    ELSE IF day <= 21 THEN "Week 3"
    ELSE IF day <= 28 THEN "Week 4"
    ELSE "Week 5"

\* pd.cut(day, bins=[0, 7, 14, 21, 28, 31], labels=_WEEKS_LIST, right=True):
\* label i for bins[i] < day <= bins[i+1], NaN outside every bin
CutBins == <<0, 7, 14, 21, 28, 31>>

\* pd.cut with right=False: bins[i] <= day < bins[i+1]
pd_cut_left(day) ==
    LET hit == {i \in 1 .. Len(_WEEKS_LIST) : CutBins[i] <= day /\ day < CutBins[i + 1]}
    IN IF hit = {} THEN "NaN" ELSE _WEEKS_LIST[CHOOSE i \in hit : TRUE]

pd_cut(day) ==
    LET hit == {i \in 1 .. Len(_WEEKS_LIST) : CutBins[i] < day /\ day <= CutBins[i + 1]}
    IN IF hit = {} THEN "NaN" ELSE _WEEKS_LIST[CHOOSE i \in hit : TRUE]

\* output.with_columns(day, week_of_month)
WithWeekOfMonth(output) ==
    [k \in 1 .. Len(output) |->
        [Date |-> output[k].Date, hour |-> output[k].hour,
         weekday |-> output[k].weekday,
         week_of_month |-> week_of_month(dt_day(output[k].Date))]]

----------------------------------------------------------------------------
(* _compute_week_hm_data (function.py, sce3.py) *)

RECURSIVE FilterWeek(_, _)
FilterWeek(rows, week_label) ==
    IF rows = <<>> THEN <<>>
    ELSE IF Head(rows).week_of_month = week_label
         THEN <<[Head(rows) EXCEPT !.weekday = strftime_A(Head(rows).Date)]>>
              \o FilterWeek(Tail(rows), week_label)
         ELSE FilterWeek(Tail(rows), week_label)

\* the number of rows in place of the number of distinct months
MonthCount_rows(df_wk) ==
    IF Len(df_wk) = 0 THEN 1 ELSE Len(df_wk)

\* Date.dt.strftime('%Y-%m').n_unique(), 1 when it is 0
MonthCount(df_wk) ==
    LET n == Cardinality({strftime_Ym(df_wk[i].Date) : i \in 1 .. Len(df_wk)})
    IN IF n = 0 THEN 1 ELSE n

\* the groups of group_by("weekday"), filtered to _WEEKDAY_ORDER and sorted
\* by their position in it
RECURSIVE AggWeekdays(_, _)
AggWeekdays(df_wk, k) ==
    IF k > Len(_WEEKDAY_ORDER) THEN <<>>
    ELSE (IF \E i \in 1 .. Len(df_wk) : df_wk[i].weekday = _WEEKDAY_ORDER[k]
          THEN <<_WEEKDAY_ORDER[k]>> ELSE <<>>)
         \o AggWeekdays(df_wk, k + 1)

_compute_week_hm_data(df_with_time, week_label) ==
    LET df_wk == FilterWeek(df_with_time, week_label)
        agg == AggWeekdays(df_wk, 1)
        month_count == MonthCount(df_wk)
    IN [k \in 1 .. Len(agg) |->
          [weekday |-> agg[k],
           hour |-> [h \in Hours |-> round(WeekdaySum(df_wk, agg[k], h), month_count)]]]

----------------------------------------------------------------------------
(* sce5: _compute_duration_matrix and _assign_month_and_week *)

\* _TIME_BIN_START[h] and _TIME_BIN_END[h], minutes of the reference day
_TIME_BIN_START(h) == h * MinPerHour
_TIME_BIN_END(h) == ((h + 1) % HoursPerDay) * MinPerHour

\* out_times.where(~wrap_mask, out_times + 1 day), wrap_mask = out < in
Sce5Wrap(in_time, out_time) ==
    IF out_time < in_time THEN out_time + MinPerDay ELSE out_time

sce5_overlap(in_time, out_time, count, h) ==
    LET overlap_start == Max(in_time, _TIME_BIN_START(h))
        overlap_end == Min(out_time, _TIME_BIN_END(h))
        seconds == overlap_end - overlap_start
    IN (IF seconds < 0 THEN 0 ELSE seconds) * count

sce5_compute_duration_matrix(table) ==
    LET temp == SelectRows(table, {r \in {table[i] : i \in 1 .. Len(table)} :
                                      r.In_Room # NULL /\ r.Out_Room # NULL})
    IN [i \in 1 .. Len(temp) |->
          LET r == temp[i]
              out_time == Sce5Wrap(r.In_Room, r.Out_Room)
          IN [Date |-> r.Date, In_Room |-> r.In_Room, Out_Room |-> r.Out_Room,
              Count |-> r.Count, weekday |-> strftime_A(r.Date),
              hour |-> [h \in Hours |-> sce5_overlap(r.In_Room, out_time, r.Count, h)]]]

_assign_month_and_week(rows) ==
    [k \in 1 .. Len(rows) |->
        [Date |-> rows[k].Date, In_Room |-> rows[k].In_Room,
         Out_Room |-> rows[k].Out_Room, Count |-> rows[k].Count,
         weekday |-> rows[k].weekday, hour |-> rows[k].hour,
         day |-> dt_day(rows[k].Date),
         week_of_month |-> pd_cut(dt_day(rows[k].Date))]]

\* DataFrame.round() of n / d, n >= 0, d > 0: numpy rounds a tie to the even
\* integer
round_half_even(n, d) ==
    LET q == n \div d
        r == n % d
    IN IF 2 * r < d THEN q
       ELSE IF 2 * r > d THEN q + 1
       ELSE IF q % 2 = 0 THEN q ELSE q + 1

\* the fixed divisor of raw.div(3)
WeekDivisor == 3

\* wk_df = df_full[week_of_month == selected_wk]; raw = its sums by weekday,
\* reindexed to _WEEKDAY_ORDER with 0 for the missing weekdays;
\* hm_matrix = raw.div(3).round().astype(int).  The cells of df_full are
\* minutes here, so an hour value divided by 3 is minutes / (60 * 3).
sce5_hm_matrix(full, week_label) ==
    LET wk_df == SelectRows(full, {r \in {full[i] : i \in 1 .. Len(full)} :
                                      r.week_of_month = week_label})
    IN [k \in 1 .. Len(_WEEKDAY_ORDER) |->
          [weekday |-> _WEEKDAY_ORDER[k],
           hour |-> [h \in Hours |->
                       round_half_even(WeekdaySum(wk_df, _WEEKDAY_ORDER[k], h),
                                       MinPerHour * WeekDivisor)]]]

----------------------------------------------------------------------------
(* step1.uploadstep1_page: the column-selection step *)

\* A cell of the uploaded frame: null, the empty string, a text that is no
\* number, a time text 'a:b', an integer a, or a date text of day number a
RawCell(kind, a, b) == [kind |-> kind, a |-> a, b |-> b]

\* df.select([cd, ci, co]).drop_nulls(subset=['Date', 'In Room', 'Out Room']),
\* and the Count column: the selected column of the same rows, or pl.lit(1)
step1_select(frame, has_cc) ==
    LET kept == SelectRows(frame, {r \in {frame[i] : i \in 1 .. Len(frame)} :
                                      /\ r.Date.kind # "null"
                                      /\ r.In_Room.kind # "null"
                                      /\ r.Out_Room.kind # "null"})
    IN [k \in 1 .. Len(kept) |->
          [kept[k] EXCEPT !.Count = IF has_cc THEN @ ELSE RawCell("int", 1, 0)]]

\* str.strptime(pl.Date, format='%Y/%m/%d', strict=False) leaves null
invalid_date(cell) == cell.kind # "date"

\* the check of a time text: at least two ':' parts, 0 <= hours < 24 and
\* 0 <= minutes < 60; any other text is an error
time_error(cell) ==
    ~(cell.kind = "hm" /\ 0 <= cell.a /\ cell.a < HoursPerDay
                       /\ 0 <= cell.b /\ cell.b < MinPerHour)

\* format_time: 'HH:MM' of a valid time text, as the minute of the day
format_time(cell) == cell.a * MinPerHour + cell.b

\* cast(pl.Int64, strict=False) leaves null what is no integer
invalid_count(cell) == cell.kind # "int"

RECURSIVE CountRows(_, _)
CountRows(rows, bad) ==
    IF rows = <<>> THEN 0
    ELSE (IF Head(rows) \in bad THEN 1 ELSE 0) + CountRows(Tail(rows), bad)

step1_total_errors(df2, has_cc) ==
    LET rows == {df2[i] : i \in 1 .. Len(df2)}
        date_error_count == CountRows(df2, {r \in rows : invalid_date(r.Date)})
        in_time_error_count == CountRows(df2, {r \in rows : time_error(r.In_Room)})
        out_time_error_count == CountRows(df2, {r \in rows : time_error(r.Out_Room)})
        count_error_count ==
            IF has_cc THEN CountRows(df2, {r \in rows : invalid_count(r.Count)}) ELSE 0
    IN date_error_count + in_time_error_count + out_time_error_count + count_error_count

\* the frame stored as crna_data, reached with total_errors = 0 only:
\* formatted times, Count after fill_null(1).cast(pl.Int64)
step1_cleaned(df2) ==
    [k \in 1 .. Len(df2) |->
        [Date |-> df2[k].Date.a,
         In_Room |-> format_time(df2[k].In_Room),
         Out_Room |-> format_time(df2[k].Out_Room),
         Count |-> IF invalid_count(df2[k].Count) THEN 1 ELSE df2[k].Count.a]]

----------------------------------------------------------------------------
(* st.cache_data: the memoization of the derived structures *)

\* the memoized functions of the derived structures
MemoFns == {"_compute_presence_matrix", "_compute_duration_matrix",
            "_compute_normalized_heatmap", "_compute_week_hm_data"}

\* every function has a cache of its own, empty when the server starts
EmptyCache == [fn \in MemoFns |-> <<>>]

\* a key made of the first argument only
cache_key_first(args) == <<args[1]>>

\* the key of an entry is made of the values of all arguments of the call
\* (no parameter name starts with an underscore, so none is left unhashed)
cache_key(args) == args

\* the body of the decorated function
Compute(fn, args) ==
    CASE fn = "_compute_presence_matrix" -> _compute_presence_matrix(args[1])
      [] fn = "_compute_duration_matrix" -> _compute_duration_matrix(args[1])
      [] fn = "_compute_normalized_heatmap" ->
            _compute_normalized_heatmap(args[1], args[2], args[3])
      [] fn = "_compute_week_hm_data" -> _compute_week_hm_data(args[1], args[2])

ComputeRaises(fn, args) ==
    CASE fn = "_compute_presence_matrix" -> BucketizerRaises(args[1])
      [] fn = "_compute_duration_matrix" -> BucketizerRaises(args[1])
      [] fn = "_compute_normalized_heatmap" -> HeatmapRaises(args[1])
      [] fn = "_compute_week_hm_data" -> FALSE

\* the number of entries held
RECURSIVE CacheEntries(_, _)
CacheEntries(c, fns) ==
    IF fns = {} THEN 0
    ELSE LET fn == CHOOSE f \in fns : TRUE
         IN Cardinality(DOMAIN c[fn]) + CacheEntries(c, fns \ {fn})

----------------------------------------------------------------------------
(* Inputs *)

FineTimes ==
    {h * MinPerHour + k * (MinPerHour \div SlotsPerHour) :
        h \in Hours, k \in 0 .. (SlotsPerHour - 1)}

Row(d, i, o, c) == [Date |-> d, In_Room |-> i, Out_Room |-> o, Count |-> c]

\* one row on 2025-01-31, every pair of clock times of the grid
FineTables ==
    {<<Row(30, i, o, c)>> : i \in FineTimes, o \in FineTimes, c \in 1 .. MaxCount}

\* 2025-01-01 (Wed), 2025-01-09 (Thu), 2025-01-28 (Tue), 2025-02-05 (Wed)
CoarseDates == {0, 8, 27, 35}

\* 08:00-09:00 and 23:30-00:15
CoarseStays == {<<480, 540>>, <<1410, 15>>}

CoarseRows ==
    {Row(d, s[1], s[2], c) : d \in CoarseDates, s \in CoarseStays, c \in 1 .. MaxCount}

CoarseTables ==
    UNION {[1 .. n -> CoarseRows] : n \in 0 .. MaxRows}

\* one row 08:00-09:00 on every date of the calendar window
CalendarTables == {<<Row(d, 480, 540, 1)>> : d \in 0 .. LastDate}

\* two stays within the hour from 08:00, 30 or 60 minutes long, on the first
\* Wednesdays of January and February
SameHourTables ==
    {<<Row(d1, 480, 480 + a1, c1), Row(d2, 480, 480 + a2, c2)>> :
        d1 \in {0, 35}, d2 \in {0, 35}, a1 \in {30, 60}, a2 \in {30, 60},
        c1 \in 1 .. MaxCount, c2 \in 1 .. MaxCount}

Tables == FineTables \cup CoarseTables \cup CalendarTables \cup SameHourTables

\* Uploaded frames: rows 2025-01-01, '8:00', '9:00', Count 1 with at most
\* one cell replaced: a null, an empty or non-numeric text, an hour of 24, a
\* minute of 60, a count of -1, 0 or MaxCount
MaxRawRows == 2

GoodRawRow ==
    [Date |-> RawCell("date", 0, 0), In_Room |-> RawCell("hm", 8, 0),
     Out_Room |-> RawCell("hm", 9, 0), Count |-> RawCell("int", 1, 0)]

OddTimes ==
    {RawCell("null", 0, 0), RawCell("empty", 0, 0), RawCell("text", 0, 0),
     RawCell("hm", HoursPerDay, 0), RawCell("hm", 8, MinPerHour)}

OddCounts ==
    {RawCell("null", 0, 0), RawCell("text", 0, 0)}
        \cup {RawCell("int", v, 0) : v \in {0 - 1, 0, MaxCount}}

RawRows ==
    {GoodRawRow}
        \cup {[GoodRawRow EXCEPT !.Date = c] : c \in {RawCell("null", 0, 0), RawCell("text", 0, 0)}}
        \cup {[GoodRawRow EXCEPT !.In_Room = c] : c \in OddTimes}
        \cup {[GoodRawRow EXCEPT !.Out_Room = c] : c \in OddTimes}
        \cup {[GoodRawRow EXCEPT !.Count = c] : c \in OddCounts}

RawTables == UNION {[1 .. n -> RawRows] : n \in 0 .. MaxRawRows}

----------------------------------------------------------------------------
(* State machine *)

\* Either a cleaned table is stored in the session, or a file has been
\* uploaded and the column-selection step has not run yet.
Init ==
    /\ \/ df \in Tables /\ has_crna = TRUE /\ uploaded = <<>>
       \/ df = <<>> /\ has_crna = FALSE /\ uploaded \in RawTables
    /\ pc = "input"
    /\ raised = FALSE
    /\ parse_in = <<>>
    /\ parsed = <<>>
    /\ presence = <<>>
    /\ heatmap = <<>>
    /\ weeks = <<>>
    /\ selected_wk = ""
    /\ week_hm = <<>>
    /\ duration = <<>>
    /\ df_full = <<>>
    /\ hm_matrix = <<>>
    /\ monthly_summary = <<>>
    /\ weekday_total = <<>>
    /\ cc = FALSE
    /\ total_errors = 0
    /\ summed = <<>>
    /\ frames = <<>>
    /\ cache = EmptyCache
    /\ history = [fn \in MemoFns |-> {}]
    /\ call = [fn |-> "", hit |-> FALSE]
    /\ session_state = <<>>
    /\ related = <<>>

\* _parse_time_series applied to the table, one cell of which may be null
\* or the empty string
WithCell(table, i, col, cell) ==
    [k \in 1 .. Len(table) |-> IF k = i THEN [table[k] EXCEPT ![col] = cell] ELSE table[k]]

ParseTimeSeries ==
    /\ pc = "input" /\ has_crna
    /\ \E i \in 0 .. Len(df), col \in {"In_Room", "Out_Room"}, cell \in {NULL, EMPTY} :
          /\ i = 0 => (col = "In_Room" /\ cell = NULL)
          /\ parse_in' = (IF i = 0 THEN df ELSE WithCell(df, i, col, cell))
    /\ raised' = ParseRaises(parse_in')
    /\ parsed' = (IF ParseRaises(parse_in') THEN <<>> ELSE _parse_time_series(parse_in'))
    /\ pc' = "parsed"
    /\ UNCHANGED <<df, presence, heatmap, weeks, selected_wk, week_hm,
                   duration, df_full, hm_matrix, monthly_summary,
                   weekday_total, uploaded, has_crna, cc, total_errors,
                   summed, frames,
                   cache,
                   history,
                   call,
                   session_state,
                   related>>

\* sce2.month_analysis: monthly summary, presence matrix and its date range,
\* weekday totals, normalized heatmap.  An exception ends the page where it
\* is raised: the bucketizer raises on a table without rows, and
\* _weekday_total_summary when the count series does not fit the result.
sce2_page ==
    /\ frames' = presence_frames(df)
    /\ monthly_summary' = sce2_compute_monthly_summary(df)
    /\ IF BucketizerRaises(df)
       THEN /\ raised' = TRUE
            /\ UNCHANGED <<presence, weekday_total, heatmap>>
       ELSE LET output == _compute_presence_matrix(df)
                start_date == output[1].Date
                end_date == output[Len(output)].Date
            IN /\ presence' = output
               /\ IF WeekdayTotalRaises(output, start_date, end_date)
                  THEN /\ raised' = TRUE
                       /\ UNCHANGED <<weekday_total, heatmap>>
                  ELSE /\ weekday_total' = reindex_WEEKDAY_ORDER(
                              _weekday_total_summary(output, start_date, end_date))
                       /\ raised' = HeatmapRaises(output)
                       /\ heatmap' = (IF HeatmapRaises(output) THEN <<>>
                                      ELSE _compute_normalized_heatmap(output, start_date,
                                                                       end_date))

\* sce2.month_analysis run on the stored table
month_analysis ==
    /\ pc = "input" /\ has_crna
    /\ pc' = "sce2"
    /\ sce2_page
    /\ UNCHANGED <<df, parse_in, parsed, weeks, selected_wk, week_hm, duration,
                   df_full, hm_matrix, uploaded, has_crna, cc, total_errors,
                   summed,
                   cache,
                   history,
                   call,
                   session_state,
                   related>>

\* function.py _compute_normalized_heatmap applied to the presence matrix of
\* the table (the frame without rows for the table without rows) and its
\* date range
ComputeNormalizedHeatmap ==
    /\ pc = "input" /\ has_crna
    /\ pc' = "heatmap"
    /\ frames' = presence_frames(df)
    /\ LET output == IF df = <<>> THEN <<>> ELSE _compute_presence_matrix(df)
       IN /\ presence' = output
          /\ raised' = HeatmapRaises(output)
          /\ heatmap' = (IF HeatmapRaises(output) THEN <<>>
                         ELSE _compute_normalized_heatmap(output, output[1].Date,
                                                          output[Len(output)].Date))
    /\ UNCHANGED <<df, parse_in, parsed, weeks, selected_wk, week_hm, duration,
                   df_full, hm_matrix, monthly_summary, weekday_total,
                   uploaded, has_crna, cc, total_errors,
                   summed,
                   cache,
                   history,
                   call,
                   session_state,
                   related>>

\* function.py _compute_monthly_summary applied to the table
ComputeMonthlySummary ==
    /\ pc = "input" /\ has_crna
    /\ pc' = "monthly"
    /\ monthly_summary' = _compute_monthly_summary(df)
    /\ UNCHANGED <<df, raised, parse_in, parsed, presence, heatmap, weeks,
                   selected_wk, week_hm, duration, df_full, hm_matrix,
                   weekday_total, uploaded, has_crna, cc, total_errors,
                   summed,
                   frames,
                   cache,
                   history,
                   call,
                   session_state,
                   related>>

\* sce3.week_analysis: presence matrix, week_of_month, the selected week's
\* heatmap data
sce3_page ==
    /\ frames' = presence_frames(df)
    /\ IF BucketizerRaises(df)
       THEN /\ raised' = TRUE
            /\ UNCHANGED <<presence, weeks, selected_wk, week_hm>>
       ELSE LET output == _compute_presence_matrix(df)
            IN /\ presence' = output
               /\ weeks' = WithWeekOfMonth(output)
               /\ \E wk \in {_WEEKS_LIST[i] : i \in 1 .. Len(_WEEKS_LIST)} :
                     /\ selected_wk' = wk
                     /\ week_hm' = _compute_week_hm_data(weeks', wk)
               /\ raised' = FALSE

\* sce3.week_analysis run on the stored table
week_analysis ==
    /\ pc = "input" /\ has_crna
    /\ pc' = "sce3"
    /\ sce3_page
    /\ UNCHANGED <<df, parse_in, parsed, heatmap, duration, df_full, hm_matrix,
                   monthly_summary, weekday_total, uploaded, has_crna, cc,
                   total_errors,
                   summed,
                   cache,
                   history,
                   call,
                   session_state,
                   related>>

\* sce4.duration_month_analysis: monthly summary, duration matrix, weekday
\* totals, normalized heatmap over the date range of the source table.  An
\* exception ends the page where it is raised: the bucketizer raises on a
\* table without rows, and _compute_normalized_heatmap when the count
\* series does not fit the weekday sums.
sce4_page ==
    /\ frames' = duration_frames(df)
    /\ monthly_summary' = sce2_compute_monthly_summary(df)
    /\ IF BucketizerRaises(df)
       THEN /\ raised' = TRUE
            /\ UNCHANGED <<duration, summed, heatmap>>
       ELSE LET output == _compute_duration_matrix(df)
                start_date == MinDate(df)
                end_date == MaxDate(df)
            IN /\ duration' = output
               /\ summed' = sce4_weekday_total_summary(output)
               /\ raised' = sce4_HeatmapRaises(output, start_date, end_date)
               /\ heatmap' = (IF sce4_HeatmapRaises(output, start_date, end_date)
                              THEN <<>>
                              ELSE sce4_compute_normalized_heatmap(output, start_date,
                                                                   end_date))

\* sce4.duration_month_analysis run on the stored table
duration_month_analysis ==
    /\ pc = "input" /\ has_crna
    /\ pc' = "sce4"
    /\ sce4_page
    /\ UNCHANGED <<df, parse_in, parsed, presence, weeks, selected_wk,
                   week_hm, df_full, hm_matrix, weekday_total,
                   uploaded, has_crna, cc, total_errors,
                   cache,
                   history,
                   call,
                   session_state,
                   related>>

\* The functions of sce5.duration_week_analysis applied to the table as a
\* pandas frame: df_full with its week_of_month column, the selected week,
\* its heatmap matrix
duration_week_matrix ==
    /\ pc = "input" /\ has_crna
    /\ pc' = "sce5"
    /\ frames' = sce5_frames(df)
    /\ df_full' = _assign_month_and_week(sce5_compute_duration_matrix(df))
    /\ \E wk \in {_WEEKS_LIST[i] : i \in 1 .. Len(_WEEKS_LIST)} :
          /\ selected_wk' = wk
          /\ hm_matrix' = sce5_hm_matrix(df_full', wk)
    /\ UNCHANGED <<df, raised, parse_in, parsed, presence, heatmap, weeks,
                   week_hm, duration, monthly_summary, weekday_total, uploaded,
                   has_crna, cc, total_errors,
                   summed,
                   cache,
                   history,
                   call,
                   session_state,
                   related>>

\* the class of the frame held as crna_data: step1 stores the polars frame
\* df2, upload.py the frame made by pl.from_pandas
crna_data_class == "polars.DataFrame"

\* .copy() is a method of pandas frames; a polars frame has clone() and no
\* attribute copy
has_copy(class) == class = "pandas.DataFrame"

\* sce5.duration_week_analysis: df_orig = crna_data.copy(), then the pie
\* data, the duration matrix, the selected week and its heatmap matrix
sce5_page ==
    /\ IF ~has_copy(crna_data_class)
       THEN /\ raised' = TRUE
            /\ UNCHANGED <<frames, df_full, selected_wk, hm_matrix>>
       ELSE /\ raised' = FALSE
            /\ frames' = sce5_frames(df)
            /\ df_full' = _assign_month_and_week(sce5_compute_duration_matrix(df))
            /\ \E wk \in {_WEEKS_LIST[i] : i \in 1 .. Len(_WEEKS_LIST)} :
                  /\ selected_wk' = wk
                  /\ hm_matrix' = sce5_hm_matrix(df_full', wk)

\* sce5.duration_week_analysis run on the stored table
duration_week_analysis ==
    /\ pc = "input" /\ has_crna
    /\ pc' = "sce5_page"
    /\ sce5_page
    /\ UNCHANGED <<df, parse_in, parsed, presence, heatmap, weeks,
                   week_hm, duration, monthly_summary, weekday_total, uploaded,
                   has_crna, cc, total_errors, summed, cache, history, call,
                   session_state, related>>

\* a weekday label outside _WEEKDAY_ORDER
MalformedWeekday == "Funday"

\* The weekday rollups applied to a bucketized frame one row of which has a
\* malformed weekday label: function.py _compute_normalized_heatmap,
\* _compute_week_hm_data for the week of that row, and
\* sce4._weekday_total_summary
RollupMalformedWeekday ==
    /\ pc = "input" /\ has_crna /\ ~BucketizerRaises(df)
    /\ pc' = "malformed"
    /\ frames' = presence_frames(df)
    /\ raised' = FALSE
    /\ LET output == _compute_presence_matrix(df)
       IN \E i \in 1 .. Len(output) :
             LET df_with_time == [output EXCEPT ![i].weekday = MalformedWeekday]
             IN /\ presence' = df_with_time
                /\ heatmap' = _compute_normalized_heatmap(df_with_time, output[1].Date,
                                                          output[Len(output)].Date)
                /\ weeks' = WithWeekOfMonth(df_with_time)
                /\ selected_wk' = weeks'[i].week_of_month
                /\ week_hm' = _compute_week_hm_data(weeks', selected_wk')
                /\ summed' = sce4_weekday_total_summary(df_with_time)
    /\ UNCHANGED <<df, parse_in, parsed, duration, df_full, hm_matrix,
                   monthly_summary, weekday_total, uploaded, has_crna, cc,
                   total_errors,
                   cache,
                   history,
                   call,
                   session_state,
                   related>>

\* step1.py l.231: the submit ends at the error report when an error was
\* counted
step1_always_stores(total) == FALSE

step1_found_errors(total) == total > 0

\* step1.uploadstep1_page, Process & Save with three distinct columns and
\* possibly a Count column selected: the cleaned frame is stored as
\* crna_data when no error was counted, and nothing is stored otherwise
step1_submit(has_cc) ==
    LET df2 == step1_select(uploaded, has_cc)
        errors == step1_total_errors(df2, has_cc)
    IN /\ cc' = has_cc
       /\ total_errors' = errors
       /\ IF step1_found_errors(errors)
          THEN UNCHANGED <<df, has_crna>>
          ELSE df' = step1_cleaned(df2) /\ has_crna' = TRUE

\* the submit of the column-selection step on an uploaded frame
uploadstep1_page ==
    /\ pc = "input" /\ ~has_crna
    /\ pc' = "step1"
    /\ \E has_cc \in BOOLEAN : step1_submit(has_cc)
    /\ UNCHANGED <<uploaded, raised, parse_in, parsed, presence, heatmap,
                   weeks, selected_wk, week_hm, duration, df_full, hm_matrix,
                   monthly_summary, weekday_total, summed,
                   frames,
                   cache,
                   history,
                   call,
                   session_state,
                   related>>

Next ==
    \/ uploadstep1_page
    \/ ParseTimeSeries
    \/ month_analysis
    \/ ComputeNormalizedHeatmap
    \/ ComputeMonthlySummary
    \/ week_analysis
    \/ duration_month_analysis
    \/ duration_week_matrix
    \/ duration_week_analysis
    \/ RollupMalformedWeekday

Spec == Init /\ [][Next]_vars

----------------------------------------------------------------------------
(* Groups of variables *)

\* what the page functions computed
result_vars == <<parse_in, parsed, presence, heatmap, weeks, selected_wk,
                 week_hm, duration, df_full, hm_matrix, monthly_summary,
                 weekday_total, summed, frames>>

\* the stored table and the column-selection step
table_vars == <<df, has_crna, uploaded, cc, total_errors>>

\* the memoization
cache_vars == <<cache, history, call>>

\* nothing has been computed
NoResults ==
    /\ parse_in = <<>>
    /\ parsed = <<>>
    /\ presence = <<>>
    /\ heatmap = <<>>
    /\ weeks = <<>>
    /\ selected_wk = ""
    /\ week_hm = <<>>
    /\ duration = <<>>
    /\ df_full = <<>>
    /\ hm_matrix = <<>>
    /\ monthly_summary = <<>>
    /\ weekday_total = <<>>
    /\ summed = <<>>
    /\ frames = <<>>

\* nothing has been memoized
NoCalls ==
    /\ cache = EmptyCache
    /\ history = [fn \in MemoFns |-> {}]
    /\ call = [fn |-> "", hit |-> FALSE]

----------------------------------------------------------------------------
(* The memoized functions called again and again *)

MaxCacheEntries == 3   \* entries held by the caches together

\* the tables handed to the bucketizers; the one without rows makes them raise
CacheTables ==
    {<<>>,
     <<Row(0, 480, 540, 1)>>,
     <<Row(0, 480, 540, 1), Row(8, 1410, 15, MaxCount)>>}

\* the bucketized frames handed to the heatmap functions
CacheFrames == {_compute_presence_matrix(t) : t \in CacheTables \ {<<>>}}

\* the date ranges handed to _compute_normalized_heatmap
CacheRanges == {<<0, 0>>, <<0, LastDate>>}

CacheInit ==
    /\ df = <<>> /\ has_crna = FALSE /\ uploaded = <<>>
    /\ cc = FALSE /\ total_errors = 0
    /\ pc = "cache"
    /\ raised = FALSE
    /\ NoResults
    /\ NoCalls
    /\ session_state = <<>>
    /\ related = <<>>

\* one call of a function decorated with st.cache_data: the stored value of
\* the key when there is one, and otherwise the value of the body, which is
\* stored under the key; a call that raises stores nothing.  The operator
\* gives the state after the call.
CachedCall(fn, args) ==
    LET key == cache_key(args)
        entries == cache[fn]
        hit == key \in DOMAIN entries
        raises == ~hit /\ ComputeRaises(fn, args)
        value == IF hit THEN entries[key] ELSE Compute(fn, args)
    IN [call |-> [fn |-> fn, hit |-> hit],
        raised |-> raises,
        history |-> IF raises THEN history
                    ELSE [history EXCEPT ![fn] = @ \cup {<<args, value>>}],
        cache |-> IF hit \/ raises THEN cache
                  ELSE [cache EXCEPT ![fn] =
                           [k \in DOMAIN entries \cup {key} |->
                               IF k = key THEN value ELSE entries[k]]]]

\* the caches are explored up to MaxCacheEntries entries
CacheHasRoom(fn, args) ==
    \/ cache_key(args) \in DOMAIN cache[fn]
    \/ CacheEntries(cache, MemoFns) < MaxCacheEntries

cached_compute_presence_matrix ==
    \E t \in CacheTables :
        LET args == <<t>>
            after == CachedCall("_compute_presence_matrix", args)
        IN /\ CacheHasRoom("_compute_presence_matrix", args)
           /\ call' = after.call /\ raised' = after.raised
           /\ history' = after.history /\ cache' = after.cache
           /\ UNCHANGED <<pc, result_vars, table_vars, session_state, related>>

cached_compute_duration_matrix ==
    \E t \in CacheTables :
        LET args == <<t>>
            after == CachedCall("_compute_duration_matrix", args)
        IN /\ CacheHasRoom("_compute_duration_matrix", args)
           /\ call' = after.call /\ raised' = after.raised
           /\ history' = after.history /\ cache' = after.cache
           /\ UNCHANGED <<pc, result_vars, table_vars, session_state, related>>

cached_compute_normalized_heatmap ==
    \E df_with_time \in CacheFrames \cup {<<>>}, range \in CacheRanges :
        LET args == <<df_with_time, range[1], range[2]>>
            after == CachedCall("_compute_normalized_heatmap", args)
        IN /\ CacheHasRoom("_compute_normalized_heatmap", args)
           /\ call' = after.call /\ raised' = after.raised
           /\ history' = after.history /\ cache' = after.cache
           /\ UNCHANGED <<pc, result_vars, table_vars, session_state, related>>

cached_compute_week_hm_data ==
    \E df_with_time \in CacheFrames, k \in 1 .. Len(_WEEKS_LIST) :
        LET args == <<WithWeekOfMonth(df_with_time), _WEEKS_LIST[k]>>
            after == CachedCall("_compute_week_hm_data", args)
        IN /\ CacheHasRoom("_compute_week_hm_data", args)
           /\ call' = after.call /\ raised' = after.raised
           /\ history' = after.history /\ cache' = after.cache
           /\ UNCHANGED <<pc, result_vars, table_vars, session_state, related>>

CacheNext ==
    \/ cached_compute_presence_matrix
    \/ cached_compute_duration_matrix
    \/ cached_compute_normalized_heatmap
    \/ cached_compute_week_hm_data

CacheSpec == CacheInit /\ [][CacheNext]_vars

----------------------------------------------------------------------------
(* The session: Home.py dispatches on st.session_state.page, one script    *)
(* run per event of the browser.  A run starts with the event that caused  *)
(* it, a widget of the page that was displayed or the st.rerun() of the    *)
(* run before, and ends at the first return, exception or st.rerun().      *)
(* Here pc is what the last run left: "rerun" after st.rerun(), else the   *)
(* part of the page that was displayed.                                    *)

\* st.session_state[key] = value
Set(s, key, value) ==
    [k \in DOMAIN s \cup {key} |-> IF k = key THEN value ELSE s[k]]

\* st.session_state.pop(key, None) for each key
Pop(s, keys) == [k \in DOMAIN s \ keys |-> s[k]]

\* Home.py l.18-19
Home_page(s) == IF "page" \in DOMAIN s THEN s ELSE Set(s, "page", "Upload")

\* the branches of the dispatch, Home.py l.20-34
Dispatched == {"Upload", "step1", "sce2", "sce3", "sce4", "sce5", "sce2_capacity"}

\* keys_to_remove of the Back buttons, without crna_data (held in df and
\* has_crna)
keys_to_remove ==
    {"analysis_type", "analysis_view", "col_error", "duplicate_error",
     "format_error", "format_error_msg", "uploaded_file", "crna_uploader"}

\* The files a user uploads, and the frame read from each: one good row;
\* two good rows nine days apart; a row whose Count is no number; a row
\* whose In Room hour is 24
SessionFiles == {"one_row.csv", "two_dates.csv", "bad_count.csv", "bad_hour.csv"}

read_csv(name) ==
    CASE name = "one_row.csv" -> <<GoodRawRow>>
      [] name = "two_dates.csv" ->
            <<GoodRawRow, [GoodRawRow EXCEPT !.Date = RawCell("date", 8, 0)]>>
      [] name = "bad_count.csv" ->
            <<[GoodRawRow EXCEPT !.Count = RawCell("text", 0, 0)]>>
      [] name = "bad_hour.csv" ->
            <<[GoodRawRow EXCEPT !.In_Room = RawCell("hm", HoursPerDay, 0)]>>

\* the frames upload.py makes of the result of process_schedule_excel:
\* Date, In Room, Out Room of the roster shifts and Count = 1
CapacityFrames == {<<>>, <<Row(0, 420, 900, 1)>>}

Event(kind, arg) == [kind |-> kind, arg |-> arg]

NoEvent == Event("rerun", "")

\* A session starts without keys.  The column-selection step reads the key
\* preprocessed_result, which no code of src/ stores: a session that holds
\* it is an input of the step.
SessionInit ==
    /\ NoResults
    /\ NoCalls
    /\ df = <<>>
    /\ has_crna = FALSE
    /\ uploaded = <<>>
    /\ cc = FALSE
    /\ total_errors = 0
    /\ related = <<>>
    /\ pc = "rerun"
    /\ raised = FALSE
    /\ \/ session_state = <<>>
       \/ \E name \in SessionFiles :
             session_state = [page |-> "step1", preprocessed_result |-> name]

\* The events of the upload page: a file put into the uploader, the Demand
\* and Capacity buttons under it, the Next button of the date dialog
UploadEvents(view) ==
    CASE view = "rerun" -> {NoEvent}
      [] view = "uploader" -> {Event("crna_uploader", name) : name \in SessionFiles}
      [] view = "buttons" -> {Event("demand_btn", ""), Event("capacity_btn", "")}
      [] view = "dialog" -> {Event("dialog Next", "")}
      [] OTHER -> {}

\* upload.render_upload_page, one run
Home_Upload ==
    LET s0 == Home_page(session_state)
    IN /\ s0.page = "Upload"
       /\ \E event \in UploadEvents(pc) :
             LET s1 == IF event.kind = "crna_uploader"
                       THEN Set(s0, "crna_uploader", event.arg) ELSE s0
             IN IF "crna_uploader" \notin DOMAIN s1
                THEN /\ session_state' = s1
                     /\ pc' = "uploader"
                     /\ UNCHANGED <<df, has_crna>>
                ELSE IF event.kind = "demand_btn"
                THEN /\ session_state' =
                           Set(Set(s1, "uploaded_file", s1.crna_uploader), "page", "step1")
                     /\ pc' = "rerun"
                     /\ UNCHANGED <<df, has_crna>>
                ELSE IF event.kind = "capacity_btn"
                THEN /\ session_state' =
                           Set(Set(s1, "show_capacity_date_dialog", TRUE),
                               "uploaded_file_for_capacity", s1.crna_uploader)
                     /\ pc' = "rerun"
                     /\ UNCHANGED <<df, has_crna>>
                ELSE IF event.kind = "dialog Next"
                THEN /\ session_state' = Set(s1, "run_processing", "2025/01/01-2025/03/31")
                     /\ pc' = "rerun"
                     /\ UNCHANGED <<df, has_crna>>
                ELSE IF /\ "run_processing" \in DOMAIN s1
                        /\ "uploaded_file_for_capacity" \in DOMAIN s1
                THEN \E final_df \in CapacityFrames :
                        /\ df' = final_df
                        /\ has_crna' = TRUE
                        /\ session_state' =
                              Pop([k \in DOMAIN s1 \cup {"total_months", "analysis_type",
                                                          "analysis_view", "start_date_str",
                                                          "end_date_str"} |->
                                     CASE k = "total_months" ->
                                          (IF final_df = <<>> THEN 1
                                           ELSE Cardinality({strftime_Ym(final_df[i].Date) :
                                                               i \in 1 .. Len(final_df)}))
                                       [] k = "analysis_type" -> "presence"
                                       [] k = "analysis_view" -> "month"
                                       [] k = "start_date_str" -> "2025/01/01"
                                       [] k = "end_date_str" -> "2025/03/31"
                                       [] k = "page" -> "sce2_capacity"
                                       [] OTHER -> s1[k]],
                                  {"run_processing", "show_capacity_date_dialog",
                                   "uploaded_file_for_capacity"})
                        /\ pc' = "rerun"
                ELSE /\ session_state' = s1
                     /\ pc' = (IF "show_capacity_date_dialog" \in DOMAIN s1
                               THEN "dialog" ELSE "buttons")
                     /\ UNCHANGED <<df, has_crna>>
       /\ UNCHANGED <<raised, result_vars, cache_vars, uploaded, cc, total_errors, related>>

\* The events of the column-selection step: the submit of the form with or
\* without a Count column, the Cancel button under the error report, the
\* two radios, Back and Next
Step1Events(view, is_preprocessed) ==
    LET submits == {Event("Process & Save", c) : c \in {"", "Count"}}
        radios == IF is_preprocessed THEN {}
                  ELSE {Event("analysis_type_radio", t) : t \in {"presence", "duration"}}
                       \cup {Event("analysis_view_radio", v) : v \in {"month", "week"}}
    IN CASE view = "rerun" -> {NoEvent}
         [] view = "form" -> submits
         [] view = "errors" -> submits \cup {Event("Cancel Processing", "")}
         [] view = "choices" -> submits \cup radios \cup {Event("Back", ""), Event("Next", "")}
         [] OTHER -> {}

\* step1.py l.288-333: the radios store their values; a radio that was not
\* displayed by the run before starts from the stored value, and from
\* presence and month when there is none
step1_choices(s, event, is_preprocessed) ==
    LET type == IF is_preprocessed THEN "presence"
                ELSE IF event.kind = "analysis_type_radio" THEN event.arg
                ELSE IF "analysis_type" \in DOMAIN s THEN s.analysis_type
                ELSE "presence"
        view == IF is_preprocessed THEN "month"
                ELSE IF event.kind = "analysis_view_radio" THEN event.arg
                ELSE IF "analysis_view" \in DOMAIN s THEN s.analysis_view
                ELSE "month"
    IN Set(Set(s, "analysis_type", type), "analysis_view", view)

\* step1.py l.355-369: the page the Next button selects
step1_next_by_view(is_preprocessed, mode, view) ==
    IF is_preprocessed THEN "sce2(capacity)"
    ELSE IF view = "month" THEN "sce2" ELSE "sce3"

step1_next_page(is_preprocessed, mode, view) ==
    IF is_preprocessed THEN "sce2(capacity)"
    ELSE IF mode = "presence" /\ view = "month" THEN "sce2"
    ELSE IF mode = "presence" /\ view = "week" THEN "sce3"
    ELSE IF mode = "duration" /\ view = "month" THEN "sce4"
    ELSE "sce5"

\* step1.uploadstep1_page, one run.  The Cancel button is made inside the
\* branch of the submit: the run its click causes has submit_cols = False
\* and does not reach it.
Home_step1 ==
    LET s0 == Home_page(session_state)
        is_preprocessed == "preprocessed_result" \in DOMAIN s0
    IN /\ s0.page = "step1"
       /\ \E event \in Step1Events(pc, is_preprocessed) :
             IF ~is_preprocessed /\ "uploaded_file" \notin DOMAIN s0
             THEN /\ session_state' = s0
                  /\ pc' = "error"
                  /\ UNCHANGED <<df, has_crna, uploaded, cc, total_errors>>
             ELSE /\ uploaded' = read_csv(IF is_preprocessed THEN s0.preprocessed_result
                                          ELSE s0.uploaded_file)
                  /\ IF event.kind = "Process & Save"
                     THEN step1_submit(event.arg = "Count")
                     ELSE /\ total_errors' = 0
                          /\ UNCHANGED cc
                  /\ IF event.kind = "Process & Save" /\ step1_found_errors(total_errors')
                     THEN /\ session_state' = s0
                          /\ pc' = "errors"
                     ELSE IF event.kind # "Process & Save" /\ ~has_crna
                     THEN /\ session_state' = s0
                          /\ pc' = "form"
                          /\ UNCHANGED <<df, has_crna>>
                     ELSE LET s1 == step1_choices(s0, event, is_preprocessed)
                          IN IF event.kind = "Back"
                             THEN /\ session_state' =
                                        Set(Pop(s1, keys_to_remove), "page", "Upload")
                                  /\ df' = <<>>
                                  /\ has_crna' = FALSE
                                  /\ pc' = "rerun"
                             ELSE IF event.kind = "Next"
                             THEN /\ session_state' =
                                        Set(s1, "page",
                                            step1_next_page(is_preprocessed,
                                                            s1.analysis_type,
                                                            s1.analysis_view))
                                  /\ pc' = "rerun"
                                  /\ UNCHANGED <<df, has_crna>>
                             ELSE /\ session_state' = s1
                                  /\ pc' = "choices"
                                  /\ IF event.kind = "Process & Save"
                                     THEN TRUE ELSE UNCHANGED <<df, has_crna>>
       /\ UNCHANGED <<raised, result_vars, cache_vars, related>>

\* The events of an analysis page: its two buttons, made at the end of the
\* page
PageEvents(view, go) ==
    CASE view = "rerun" -> {NoEvent}
      [] view = "page" -> {Event("Back", ""), Event(go, "")}
      [] OTHER -> {}

\* 'Go to Week Analysis' of sce2 and sce4, 'Go to Month Analysis' of sce3
\* and sce5: the page of the other view, of the stored analysis_type
go_to_week(analysis_type) == IF analysis_type = "presence" THEN "sce3" ELSE "sce5"

go_to_month(analysis_type) == IF analysis_type = "presence" THEN "sce2" ELSE "sce4"

\* the Back button of sce2..sce5: the keys are removed, crna_data among
\* them, and the upload page is selected
Back_keeps_page(s) == Pop(s, keys_to_remove)

Back(s) == Set(Pop(s, keys_to_remove), "page", "Upload")

\* The end of an analysis page: an exception raised above leaves the
\* buttons unmade; else the button that was clicked is handled
page_buttons(s, event, go_page) ==
    IF raised'
    THEN /\ session_state' = s
         /\ pc' = "exception"
         /\ UNCHANGED <<df, has_crna>>
    ELSE IF event.kind = "Back"
    THEN /\ session_state' = Back(s)
         /\ df' = <<>>
         /\ has_crna' = FALSE
         /\ pc' = "rerun"
    ELSE IF event = NoEvent
    THEN /\ session_state' = s
         /\ pc' = "page"
         /\ UNCHANGED <<df, has_crna>>
    ELSE /\ session_state' = Set(s, "page", go_page)
         /\ pc' = "rerun"
         /\ UNCHANGED <<df, has_crna>>

\* a page opened without crna_data shows 'Please upload a file' and returns
page_without_data(s) ==
    /\ session_state' = s
    /\ pc' = "info"
    /\ UNCHANGED <<df, has_crna, raised>>

\* sce2.month_analysis, one run
Home_sce2 ==
    LET s0 == Home_page(session_state)
    IN /\ s0.page = "sce2"
       /\ \E event \in PageEvents(pc, "Go to Week Analysis") :
             IF ~has_crna
             THEN /\ page_without_data(s0)
                  /\ UNCHANGED <<frames, monthly_summary, presence, weekday_total, heatmap>>
             ELSE /\ sce2_page
                  /\ page_buttons(s0, event, go_to_week(s0.analysis_type))
       /\ UNCHANGED <<parse_in, parsed, weeks, selected_wk, week_hm, duration,
                      df_full, hm_matrix, summed, uploaded, cc, total_errors,
                      cache_vars, related>>

\* sce3.week_analysis, one run
Home_sce3 ==
    LET s0 == Home_page(session_state)
    IN /\ s0.page = "sce3"
       /\ \E event \in PageEvents(pc, "Go to Month Analysis") :
             IF ~has_crna
             THEN /\ page_without_data(s0)
                  /\ UNCHANGED <<frames, presence, weeks, selected_wk, week_hm>>
             ELSE /\ sce3_page
                  /\ page_buttons(s0, event, go_to_month(s0.analysis_type))
       /\ UNCHANGED <<parse_in, parsed, heatmap, duration, df_full, hm_matrix,
                      monthly_summary, weekday_total, summed, uploaded, cc,
                      total_errors, cache_vars, related>>

\* sce4.duration_month_analysis, one run
Home_sce4 ==
    LET s0 == Home_page(session_state)
    IN /\ s0.page = "sce4"
       /\ \E event \in PageEvents(pc, "Go to Week Analysis") :
             IF ~has_crna
             THEN /\ page_without_data(s0)
                  /\ UNCHANGED <<frames, monthly_summary, duration, summed, heatmap>>
             ELSE /\ sce4_page
                  /\ page_buttons(s0, event, go_to_week(s0.analysis_type))
       /\ UNCHANGED <<parse_in, parsed, presence, weeks, selected_wk, week_hm,
                      df_full, hm_matrix, weekday_total, uploaded, cc,
                      total_errors, cache_vars, related>>

\* sce5.duration_week_analysis, one run
Home_sce5 ==
    LET s0 == Home_page(session_state)
    IN /\ s0.page = "sce5"
       /\ \E event \in PageEvents(pc, "Go to Month Analysis") :
             IF ~has_crna
             THEN /\ page_without_data(s0)
                  /\ UNCHANGED <<frames, df_full, selected_wk, hm_matrix>>
             ELSE /\ sce5_page
                  /\ page_buttons(s0, event, go_to_month(s0.analysis_type))
       /\ UNCHANGED <<parse_in, parsed, presence, heatmap, weeks, week_hm,
                      duration, monthly_summary, weekday_total, summed, uploaded,
                      cc, total_errors, cache_vars, related>>

\* A page value without a page function in src/: 'sce2(capacity)' matches
\* no branch of the dispatch, and month_capacity_analysis, the function of
\* sce2_capacity, is imported from a module that is not part of src/.  The
\* run displays nothing and leaves the session as it is.
Home_no_page ==
    LET s0 == Home_page(session_state)
    IN /\ s0.page \notin {"Upload", "step1", "sce2", "sce3", "sce4", "sce5"}
       /\ pc = "rerun"
       /\ pc' = "blank"
       /\ session_state' = s0
       /\ UNCHANGED <<raised, result_vars, table_vars, cache_vars, related>>

SessionNext ==
    \/ Home_Upload
    \/ Home_step1
    \/ Home_sce2
    \/ Home_sce3
    \/ Home_sce4
    \/ Home_sce5
    \/ Home_no_page

SessionSpec == SessionInit /\ [][SessionNext]_vars

----------------------------------------------------------------------------
(* The two bucketizers of function.py applied to one table, and to the     *)
(* tables made of it: its rows one by one, its rows in another order, one  *)
(* of its rows of Count c as c rows of Count 1                             *)

\* a stay of 24 hours, 23:30-23:30, next to the coarse and same-hour tables
RelatedTables ==
    CoarseTables \cup SameHourTables
        \cup {<<Row(0, 1410, 1410, c)>> : c \in 1 .. MaxCount}

RelatedInit ==
    /\ df \in RelatedTables
    /\ has_crna = TRUE
    /\ uploaded = <<>>
    /\ cc = FALSE
    /\ total_errors = 0
    /\ pc = "input"
    /\ raised = FALSE
    /\ NoResults
    /\ NoCalls
    /\ session_state = <<>>
    /\ related = <<>>

\* the rows of the table in the order p
Reordered(table, p) == [k \in 1 .. Len(table) |-> table[p[k]]]

\* row i of Count c as c rows of Count 1
SplitRow(table, i) ==
    SubSeq(table, 1, i - 1)
        \o [k \in 1 .. table[i].Count |-> [table[i] EXCEPT !.Count = 1]]
        \o SubSeq(table, i + 1, Len(table))

\* _compute_presence_matrix and _compute_duration_matrix of each table
Bucketized(tables) ==
    [k \in 1 .. Len(tables) |->
        [table |-> tables[k],
         presence |-> _compute_presence_matrix(tables[k]),
         duration |-> _compute_duration_matrix(tables[k])]]

\* both bucketizers called on the table, and on the tables made of it
BucketizeAll(tables) ==
    /\ IF BucketizerRaises(df)
       THEN /\ raised' = TRUE
            /\ UNCHANGED <<presence, duration, related>>
       ELSE /\ raised' = FALSE
            /\ presence' = _compute_presence_matrix(df)
            /\ duration' = _compute_duration_matrix(df)
            /\ related' = Bucketized(tables)
    /\ UNCHANGED <<df, parse_in, parsed, heatmap, weeks, selected_wk, week_hm,
                   df_full, hm_matrix, monthly_summary, weekday_total, summed,
                   frames, uploaded, has_crna, cc, total_errors, cache_vars,
                   session_state>>

BucketizeTable ==
    /\ pc = "input"
    /\ pc' = "both"
    /\ BucketizeAll(<<>>)

BucketizeRows ==
    /\ pc = "input"
    /\ pc' = "rows"
    /\ BucketizeAll([k \in 1 .. Len(df) |-> <<df[k]>>])

BucketizeReordered ==
    /\ pc = "input"
    /\ pc' = "reordered"
    /\ \E p \in Permutations(1 .. Len(df)) : BucketizeAll(<<Reordered(df, p)>>)

BucketizeSplit ==
    /\ pc = "input"
    /\ pc' = "split"
    /\ \E i \in 1 .. Len(df) : BucketizeAll(<<SplitRow(df, i)>>)

RelatedNext ==
    \/ BucketizeTable
    \/ BucketizeRows
    \/ BucketizeReordered
    \/ BucketizeSplit

RelatedSpec == RelatedInit /\ [][RelatedNext]_vars

----------------------------------------------------------------------------
(* The stated properties.  The interval of a record and the expected cell  *)
(* values are written from the data model of the specification, not from   *)
(* the operators above.                                                    *)

IntervalStart(r) == r.Date * MinPerDay + r.In_Room

IntervalEnd(r) ==
    LET candidate == r.Date * MinPerDay + r.Out_Room
    IN IF candidate <= IntervalStart(r) THEN candidate + MinPerDay ELSE candidate

BucketStart(d, h) == d * MinPerDay + h * MinPerHour
BucketEnd(d, h) == BucketStart(d, h) + MinPerHour

Overlaps(r, d, h) ==
    IntervalStart(r) < BucketEnd(d, h) /\ IntervalEnd(r) > BucketStart(d, h)

OverlapMinutes(r, d, h) ==
    Max(0, Min(IntervalEnd(r), BucketEnd(d, h)) - Max(IntervalStart(r), BucketStart(d, h)))

RECURSIVE ExpectedPresence(_, _, _)
ExpectedPresence(table, d, h) ==
    IF table = <<>> THEN 0
    ELSE (IF Overlaps(Head(table), d, h) THEN Head(table).Count ELSE 0)
         + ExpectedPresence(Tail(table), d, h)

RECURSIVE ExpectedDuration(_, _, _)
ExpectedDuration(table, d, h) ==
    IF table = <<>> THEN 0
    ELSE Head(table).Count * OverlapMinutes(Head(table), d, h)
         + ExpectedDuration(Tail(table), d, h)

RECURSIVE StayMinutes(_)
StayMinutes(table) ==
    IF table = <<>> THEN 0
    ELSE Head(table).Count * (IntervalEnd(Head(table)) - IntervalStart(Head(table)))
         + StayMinutes(Tail(table))

\* the cell (d, h) of a per-date matrix, 0 when the date has no row
Cell(matrix, d, h) ==
    IF \E k \in 1 .. Len(matrix) : matrix[k].Date = d
    THEN matrix[CHOOSE k \in 1 .. Len(matrix) : matrix[k].Date = d].hour[h]
    ELSE 0

RECURSIVE SumHours(_, _)
SumHours(f, h) == IF h < 0 THEN 0 ELSE f[h] + SumHours(f, h - 1)

RowTotal(row) == SumHours(row.hour, HoursPerDay - 1)

RECURSIVE MatrixTotal(_)
MatrixTotal(matrix) ==
    IF matrix = <<>> THEN 0 ELSE RowTotal(Head(matrix)) + MatrixTotal(Tail(matrix))

\* the dates a table can touch, and the dates a matrix has rows for
DatesNear(table) ==
    UNION {{table[i].Date - 1, table[i].Date, table[i].Date + 1} : i \in 1 .. Len(table)}

DatesOf(matrix) == {matrix[k].Date : k \in 1 .. Len(matrix)}

CrossesMidnight(r) == IntervalEnd(r) > (r.Date + 1) * MinPerDay

\* a state that holds the presence matrix of a table with rows
PresenceComputed == pc \in {"sce2", "sce3", "heatmap"} /\ ~BucketizerRaises(df)

\* C1: in presence mode every cell (d, h) holds the sum of the full Counts of
\* exactly the records with start < end-of-bucket and end > start-of-bucket,
\* and 0 from all others.
C1_PresenceOverlap ==
    PresenceComputed =>
        /\ DatesOf(presence) \subseteq DatesNear(df)
        /\ \A d \in DatesNear(df), h \in Hours :
              Cell(presence, d, h) = ExpectedPresence(df, d, h)

\* a stay shorter than an hour inside one bucket marks that bucket only
C1_Witness ==
    /\ pc = "sce2" /\ ~raised /\ Len(df) = 1
    /\ LET r == df[1]
           h == r.In_Room \div MinPerHour
       IN /\ r.Out_Room > r.In_Room
          /\ r.Out_Room - r.In_Room < MinPerHour
          /\ (r.Out_Room - 1) \div MinPerHour = h
          /\ h > 0 /\ h < HoursPerDay - 1
          /\ Cell(presence, r.Date, h) = r.Count
          /\ Cell(presence, r.Date, h - 1) = 0
          /\ Cell(presence, r.Date, h + 1) = 0

\* a state that holds the duration matrix of a table with rows
DurationComputed == pc = "sce4" /\ ~BucketizerRaises(df)

\* C2: in duration mode every cell (d, h) holds Count times the true overlap
\* of the interval with the bucket window (exact minutes, not rounded).
C2_DurationOverlap ==
    DurationComputed =>
        /\ DatesOf(duration) \subseteq DatesNear(df)
        /\ \A d \in DatesNear(df), h \in Hours :
              Cell(duration, d, h) = ExpectedDuration(df, d, h)

\* a bucket overlapped for part of the hour holds the fractional value
C2_Witness ==
    /\ pc = "sce4" /\ ~raised /\ Len(df) = 1
    /\ \E h \in Hours :
          /\ Cell(duration, df[1].Date, h) > 0
          /\ Cell(duration, df[1].Date, h) < MinPerHour * df[1].Count

\* C3: the bucket contributions of every record sum to its stay duration
\* times Count, in the per-date duration matrix and in the sce5 matrix
\* (stated here for the stays that fit within one day, in < out).
C3_Conservation ==
    (\A i \in 1 .. Len(df) : df[i].In_Room < df[i].Out_Room) =>
        /\ DurationComputed => MatrixTotal(duration) = StayMinutes(df)
        /\ pc = "sce5" =>
              \A k \in 1 .. Len(df_full) :
                  RowTotal(df_full[k]) = StayMinutes(<<df[k]>>)

\* the per-date duration matrix conserves the stay of every table
DurationMatrixConserves ==
    DurationComputed => MatrixTotal(duration) = StayMinutes(df)

\* the per-date presence matrix gives an in = out record its 24 hours
PresenceEqualTimes ==
    (pc = "sce2" /\ ~raised /\ Len(df) = 1 /\ df[1].In_Room = df[1].Out_Room) =>
        /\ MatrixTotal(presence) >= HoursPerDay * df[1].Count
        /\ MatrixTotal(presence) <= (HoursPerDay + 1) * df[1].Count

\* C4: the parsed interval has end > start; end is moved by one day exactly
\* when the candidate end is <= start.
C4_ParsedEndAfterStart ==
    pc = "parsed" =>
        \A i \in 1 .. Len(parsed) :
            LET start == parsed[i].Date * MinPerDay + parsed[i].In_Room
                candidate == parsed[i].Date * MinPerDay + parsed[i].Out_Room
            IN /\ parsed[i].In_dt = start
               /\ parsed[i].Out_dt > start
               /\ candidate <= start => parsed[i].Out_dt = candidate + MinPerDay
               /\ candidate > start => parsed[i].Out_dt = candidate

\* C5: a record with in-time = out-time is a 24-hour stay: its duration cells
\* total 24 x Count hours and presence marks every bucket from its start hour
\* to the same clock time on the next day.
C5_EqualTimesFullDay ==
    \A i \in 1 .. Len(df) :
        df[i].In_Room = df[i].Out_Room =>
            /\ (DurationComputed /\ Len(df) = 1) =>
                  MatrixTotal(duration) = HoursPerDay * MinPerHour * df[i].Count
            /\ pc = "sce5" =>
                  RowTotal(df_full[i]) = HoursPerDay * MinPerHour * df[i].Count
            /\ (pc = "sce2" /\ ~raised /\ Len(df) = 1) =>
                  \A d \in DatesNear(df), h \in Hours :
                      Cell(presence, d, h) =
                          (IF /\ BucketEnd(d, h) > IntervalStart(df[i])
                              /\ BucketStart(d, h) < IntervalStart(df[i]) + MinPerDay
                           THEN df[i].Count ELSE 0)

\* C6: a record crossing midnight puts its pre-midnight hours in the row of
\* its date D and its post-midnight hours in the row of D+1, each with the
\* full Count, and every row carries the weekday name of its own date.
C6_CrossMidnight ==
    PresenceComputed =>
        /\ \A k \in 1 .. Len(presence) :
              presence[k].weekday = _WEEKDAY_ORDER[((presence[k].Date + 3) % 7) + 1]
        /\ \A i \in 1 .. Len(df) :
              CrossesMidnight(df[i]) =>
                 /\ \A h \in (df[i].In_Room \div MinPerHour) .. (HoursPerDay - 1) :
                       /\ Cell(presence, df[i].Date, h) >= df[i].Count
                       /\ Len(df) = 1 => Cell(presence, df[i].Date, h) = df[i].Count
                 /\ \A h \in 0 .. ((df[i].Out_Room - 1) \div MinPerHour) :
                       /\ Cell(presence, df[i].Date + 1, h) >= df[i].Count
                       /\ Len(df) = 1 => Cell(presence, df[i].Date + 1, h) = df[i].Count

\* in 23:xx, out 00:xx: bucket 23 of D and bucket 0 of D+1, two weekday names
C6_Witness ==
    /\ pc = "sce2" /\ ~raised /\ Len(df) = 1 /\ Len(presence) = 2
    /\ df[1].In_Room > (HoursPerDay - 1) * MinPerHour
    /\ df[1].Out_Room > 0 /\ df[1].Out_Room < MinPerHour
    /\ presence[1].Date = df[1].Date /\ presence[2].Date = df[1].Date + 1
    /\ presence[1].hour[HoursPerDay - 1] = df[1].Count
    /\ presence[2].hour[0] = df[1].Count
    /\ presence[1].weekday # presence[2].weekday

\* the table of the specification
ExpectedWeek(day) ==
    IF day \in 1 .. 7 THEN "Week 1"
    ELSE IF day \in 8 .. 14 THEN "Week 2"
    ELSE IF day \in 15 .. 21 THEN "Week 3"
    ELSE IF day \in 22 .. 28 THEN "Week 4"
    ELSE IF day \in 29 .. 31 THEN "Week 5"
    ELSE "none"

\* C7: day-of-month 1-7 is Week 1, 8-14 Week 2, 15-21 Week 3, 22-28 Week 4,
\* 29-31 Week 5, and the when/then chain and the pd.cut binning agree.
C7_WeekOfMonth ==
    /\ (pc = "sce3" /\ ~raised) =>
          \A k \in 1 .. Len(weeks) :
              /\ weeks[k].week_of_month = ExpectedWeek(dt_day(weeks[k].Date))
              /\ weeks[k].week_of_month = pd_cut(dt_day(weeks[k].Date))
    /\ pc = "sce5" =>
          \A k \in 1 .. Len(df_full) :
              /\ df_full[k].week_of_month = ExpectedWeek(df_full[k].day)
              /\ df_full[k].week_of_month = week_of_month(df_full[k].day)

\* the presence page has labelled a 28th as Week 4 and the following 29th
\* as Week 5
C7_Witness ==
    /\ pc = "sce3" /\ ~raised /\ Len(weeks) = 2
    /\ dt_day(weeks[1].Date) = 28 /\ weeks[1].week_of_month = "Week 4"
    /\ dt_day(weeks[2].Date) = 29 /\ weeks[2].week_of_month = "Week 5"

CanonicalRows(matrix) ==
    /\ Len(matrix) = Len(_WEEKDAY_ORDER)
    /\ \A k \in 1 .. Len(matrix) : matrix[k].weekday = _WEEKDAY_ORDER[k]

\* every non-empty table gets the 7 canonical rows
NonEmptySevenRows ==
    (pc = "heatmap" /\ df # <<>>) => (~raised /\ CanonicalRows(heatmap))

\* C8: the normalized weekday heatmap has exactly the 7 rows Sunday..Saturday
\* for every input, the empty one included, with all-zero rows for weekdays
\* without data.
C8_SevenRows ==
    pc = "heatmap" =>
        /\ ~raised
        /\ CanonicalRows(heatmap)
        /\ \A k \in 1 .. Len(heatmap) :
              (\A i \in 1 .. Len(presence) : presence[i].weekday # heatmap[k].weekday)
                  => \A h \in Hours : heatmap[k].hour[h] = 0

\* C9: the week heatmap is a 7x24 matrix in the order Sunday..Saturday for
\* every week label, with zero rows for the weekdays without data in it.
C9_WeekSevenRows ==
    (pc = "sce3" /\ ~raised) => CanonicalRows(week_hm)

\* calendar dates of [start_date, end_date] that fall on weekday w
CalendarCount(start_date, end_date, w) ==
    Cardinality({d \in start_date .. end_date : _WEEKDAY_ORDER[((d + 3) % 7) + 1] = w})

\* C10: each weekday's hourly sums are divided by the number of calendar
\* dates of [start_date, end_date] on that weekday and rounded to an integer.
C10_CalendarDivisor ==
    (pc = "heatmap" /\ ~raised) =>
        LET start_date == presence[1].Date
            end_date == presence[Len(presence)].Date
        IN \A k \in 1 .. Len(heatmap), h \in Hours :
              LET n == WeekdaySum(presence, heatmap[k].weekday, h)
                  day_count == CalendarCount(start_date, end_date, heatmap[k].weekday)
                  cell == heatmap[k].hour[h]
              IN IF day_count = 0 THEN cell = 0
                 ELSE /\ 2 * (cell * day_count - n) <= day_count
                      /\ 2 * (n - cell * day_count) <= day_count

\* C11: a weekday whose divisor is 0 (no date of the data or of its range
\* falls on it) has a row of zeros, and normalization neither raises nor
\* leaves a NaN or infinite cell, for every input.
C11_ZeroDivisor ==
    pc = "heatmap" =>
        /\ ~raised
        /\ \A k \in 1 .. Len(heatmap), h \in Hours :
              /\ heatmap[k].hour[h] >= 0
              /\ (\/ DayCountsOfData(presence, heatmap[k].weekday) = 0
                  \/ CalendarCount(presence[1].Date, presence[Len(presence)].Date,
                                   heatmap[k].weekday) = 0)
                    => heatmap[k].hour[h] = 0

\* on the tables with rows the zero-divisor rows are zero and nothing raises
NonEmptyZeroDivisor ==
    (pc = "heatmap" /\ df # <<>>) =>
        /\ ~raised
        /\ \A k \in 1 .. Len(heatmap), h \in Hours :
              /\ heatmap[k].hour[h] >= 0
              /\ DayCountsOfData(presence, heatmap[k].weekday) = 0
                    => heatmap[k].hour[h] = 0

\* c is n / d rounded to the nearest integer, a tie going away from zero
HalfAwayFromZero(c, n, d) == 2 * n - d < 2 * c * d /\ 2 * c * d <= 2 * n + d

\* C12: every normalized cell is sum / divisor rounded to the nearest integer
\* with ties away from zero (0.5 becomes 1, 2.5 becomes 3), in the weekday
\* heatmap, the presence week heatmap and the duration week heatmap.
C12_RoundHalfAway ==
    /\ (pc = "heatmap" /\ ~raised) =>
          \A k \in 1 .. Len(heatmap), h \in Hours :
              LET w == heatmap[k].weekday
              IN DayCountsOfData(presence, w) > 0 =>
                    HalfAwayFromZero(heatmap[k].hour[h], WeekdaySum(presence, w, h),
                                     DayCountsOfData(presence, w))
    /\ (pc = "sce3" /\ ~raised) =>
          LET df_wk == FilterWeek(weeks, selected_wk)
          IN \A k \in 1 .. Len(week_hm), h \in Hours :
                HalfAwayFromZero(week_hm[k].hour[h],
                                 WeekdaySum(df_wk, week_hm[k].weekday, h),
                                 MonthCount(df_wk))
    /\ pc = "sce5" =>
          LET wk_df == SelectRows(df_full, {r \in {df_full[i] : i \in 1 .. Len(df_full)} :
                                               r.week_of_month = selected_wk})
          IN \A k \in 1 .. Len(hm_matrix), h \in Hours :
                HalfAwayFromZero(hm_matrix[k].hour[h],
                                 WeekdaySum(wk_df, hm_matrix[k].weekday, h),
                                 MinPerHour * WeekDivisor)

\* the cells of the two presence heatmaps are rounded half away from zero
PresenceRoundHalfAway ==
    pc \in {"heatmap", "sce3"} => C12_RoundHalfAway

\* a presence cell that is a tie: 1 over 2 dates became 1
PresenceTieReached ==
    /\ pc = "heatmap" /\ ~raised
    /\ \E k \in 1 .. Len(heatmap), h \in Hours :
          /\ DayCountsOfData(presence, heatmap[k].weekday) = 2
          /\ WeekdaySum(presence, heatmap[k].weekday, h) = 1
          /\ heatmap[k].hour[h] = 1

\* the calendar months (YYYY-MM) of the rows of the selected week label
MonthsOfWeek(rows, week_label) ==
    {strftime_Ym(rows[i].Date) : i \in {j \in 1 .. Len(rows) : rows[j].week_of_month = week_label}}

C13_NoMonthReached ==
    /\ pc = "sce3" /\ ~raised /\ weeks # <<>>
    /\ MonthsOfWeek(weeks, selected_wk) = {}
    /\ week_hm = <<>>

\* the sum of the 24 hourly columns over the rows of weekday w
RECURSIVE WeekdayHours(_, _)
WeekdayHours(rows, w) ==
    IF rows = <<>> THEN 0
    ELSE (IF Head(rows).weekday = w THEN RowTotal(Head(rows)) ELSE 0)
         + WeekdayHours(Tail(rows), w)

\* the Total of weekday w is sum / 24 / (dates of the range on weekday w)
TotalOfWeekday(w) ==
    LET days == CalendarCount(presence[1].Date, presence[Len(presence)].Date, w)
    IN \E k \in 1 .. Len(weekday_total) :
          /\ weekday_total[k].weekday = w
          /\ weekday_total[k].den # 0
          /\ weekday_total[k].num * HoursPerDay * days
                = WeekdayHours(presence, w) * weekday_total[k].den

\* C14: for every weekday w of the bucketized rows, Total(w) is the sum of
\* its 24 hourly columns / 24 / the number of dates of [start_date, end_date]
\* on weekday w, whatever set of weekdays the data has.
C14_WeekdayTotal ==
    (pc = "sce2" /\ ~BucketizerRaises(df)) =>
        /\ ~raised
        /\ \A w \in {presence[i].weekday : i \in 1 .. Len(presence)} : TotalOfWeekday(w)

\* when the page does not raise, every Total is divided by its own count
WeekdayTotalWhenNotRaised ==
    (pc = "sce2" /\ ~raised) =>
        \A w \in {presence[i].weekday : i \in 1 .. Len(presence)} : TotalOfWeekday(w)

\* the Count weights of the records of the table dated in the month
RECURSIVE MonthWeight(_, _)
MonthWeight(table, month) ==
    IF table = <<>> THEN 0
    ELSE (IF MonthFrom(Head(table).Date, 1) = month THEN Head(table).Count ELSE 0)
         + MonthWeight(Tail(table), month)

MonthRollup(summary, table) ==
    LET months == {MonthFrom(table[i].Date, 1) : i \in 1 .. Len(table)}
    IN /\ Len(summary) = Cardinality(months)
       /\ {summary[k].Month : k \in 1 .. Len(summary)} = months
       /\ \A k \in 1 .. Len(summary) - 1 : summary[k].Month < summary[k + 1].Month
       /\ \A k \in 1 .. Len(summary) :
             /\ summary[k].MonthLabel = <<MonthAbbr[summary[k].Month], 25>>
             /\ summary[k].Count = MonthWeight(table, summary[k].Month)

\* C15: the monthly summary has exactly one row per month with a record,
\* keyed 'YYYY-MM' and labelled 'Mon YY', in chronological order, and its
\* Count is the sum of the Count weights of the records of that month.
C15_MonthRollup ==
    pc \in {"sce2", "monthly"} => MonthRollup(monthly_summary, df)

\* the summary computed by the month page is the rollup of the weights
PageMonthRollup ==
    pc = "sce2" => MonthRollup(monthly_summary, df)

\* the month page has summed the weights of two months, one of them 2 + 1
PageMonthRollupReached ==
    /\ pc = "sce2" /\ Len(monthly_summary) = 2
    /\ \E k \in 1 .. 2 : monthly_summary[k].Count = 3

\* C16: every row stored as crna_data by the column-selection step has an
\* integer Count >= 1: a missing or invalid count is stored as 1, and a
\* zero or negative count is never stored.
C16_CountAtLeastOne ==
    pc = "step1" =>
        /\ has_crna => \A i \in 1 .. Len(df) : df[i].Count >= 1
        /\ (/\ cc
            /\ \A i \in 1 .. Len(uploaded) :
                  /\ uploaded[i].Date.kind = "date"
                  /\ ~time_error(uploaded[i].In_Room)
                  /\ ~time_error(uploaded[i].Out_Room)
                  /\ uploaded[i].Count.kind = "int" => uploaded[i].Count.a >= 1)
              => /\ has_crna
                 /\ Len(df) = Len(uploaded)
                 /\ \A i \in 1 .. Len(df) :
                       df[i].Count = (IF uploaded[i].Count.kind = "int"
                                      THEN uploaded[i].Count.a ELSE 1)

\* without a Count column every stored row has Count 1
NoCountColumnStoresOne ==
    (pc = "step1" /\ ~cc /\ has_crna) => \A i \in 1 .. Len(df) : df[i].Count = 1

\* a zero count is stored
ZeroCountStored ==
    pc = "step1" /\ has_crna /\ \E i \in 1 .. Len(df) : df[i].Count = 0

\* a null count blocks the storing
NullCountBlocks ==
    /\ pc = "step1" /\ ~has_crna /\ cc /\ Len(uploaded) = 1
    /\ uploaded[1] = [GoodRawRow EXCEPT !.Count = RawCell("null", 0, 0)]
    /\ total_errors = 1

\* C17: an interval whose end is still <= its start after the one-day
\* correction is rejected with an error; no interval of zero or negative
\* length is carried into the output.
C17_MalformedRejected ==
    /\ pc = "parsed" =>
          ((\E i \in 1 .. Len(parsed) : parsed[i].Out_dt <= parsed[i].In_dt) => raised)
    /\ pc = "sce5" =>
          ((\E k \in 1 .. Len(df_full) :
                Sce5Wrap(df_full[k].In_Room, df_full[k].Out_Room) <= df_full[k].In_Room)
             => raised)

\* no parsed interval has a negative length
ParsedNeverNegative ==
    pc = "parsed" => \A i \in 1 .. Len(parsed) : parsed[i].Out_dt >= parsed[i].In_dt

\* the frame without its rows of a malformed weekday label
WithoutMalformed(rows) ==
    SelectRows(rows, {r \in {rows[i] : i \in 1 .. Len(rows)} :
                         \E k \in 1 .. Len(_WEEKDAY_ORDER) : r.weekday = _WEEKDAY_ORDER[k]})

\* sce4._weekday_total_summary gives what it gives without the row
TotalExcludesMalformed ==
    pc = "malformed" => summed = sce4_weekday_total_summary(WithoutMalformed(presence))

\* the heatmap rows are those of the frame without the row
HeatmapExcludesMalformed ==
    pc = "malformed" =>
        LET absent == WithoutMalformed(presence)
        IN /\ CanonicalRows(heatmap)
           /\ \A k \in 1 .. Len(heatmap), h \in Hours :
                 heatmap[k].hour[h] =
                     NormalizeCell(WeekdaySum(absent, heatmap[k].weekday, h),
                                   DayCountsOfData(absent, heatmap[k].weekday))

\* the week heatmap data are those of the frame without the row
WeekHmExcludesMalformed ==
    pc = "malformed" =>
        week_hm = _compute_week_hm_data(WithoutMalformed(weeks), selected_wk)

\* C18: a bucketized row with a weekday label outside Sunday..Saturday is
\* left out of every weekday rollup without an error, and the rows and
\* values of the canonical weekdays are those of the frame without that row.
C18_MalformedWeekdayExcluded ==
    /\ pc = "malformed" => ~raised
    /\ TotalExcludesMalformed
    /\ HeatmapExcludesMalformed
    /\ WeekHmExcludesMalformed

\* C19: after _compute_presence_matrix or _compute_duration_matrix has
\* returned, the rows and the columns of the table the caller passed in are
\* what they were; the derived columns are in other frames only.
C19_SourceNotMutated ==
    pc \in {"sce2", "sce3", "sce4", "sce5", "heatmap", "malformed"} =>
        /\ frames[SourceRef] = df
        /\ \A i \in 1 .. Len(df) : DOMAIN frames[SourceRef][i] = DOMAIN Row(0, 0, 0, 0)

\* the duration bucketizer has put In_dt and Out_dt on its own frame, the
\* table of the caller having its four columns
C19_Witness ==
    /\ pc = "sce4" /\ ~raised /\ Len(df) > 0
    /\ Len(frames) = 2
    /\ frames[SourceRef] = df
    /\ "In_dt" \notin DOMAIN frames[SourceRef][1]
    /\ "In_dt" \in DOMAIN frames[2][1]
    /\ frames[2][1].Out_dt > frames[2][1].In_dt

\* the source columns of the rows of a frame
SourceColumns(rows) ==
    [i \in 1 .. Len(rows) |->
        Row(rows[i].Date, rows[i].In_Room, rows[i].Out_Room, rows[i].Count)]

\* the rows with both times present, in their order
BothTimesPresent(table) ==
    SelectRows(table, {r \in {table[i] : i \in 1 .. Len(table)} :
                          /\ r.In_Room \notin {NULL, EMPTY}
                          /\ r.Out_Room \notin {NULL, EMPTY}})

\* C20: the parser drops every row whose In Room or Out Room is null or
\* empty and keeps every other row: its output is exactly the rows with both
\* times present, in their original order.
C20_ParserDropsMissing ==
    pc = "parsed" =>
        /\ ~raised
        /\ SourceColumns(parsed) = BothTimesPresent(parse_in)

\* the rows with a null time are dropped, the others kept in their order
NullRowsDropped ==
    (pc = "parsed" /\ ~raised) =>
        /\ SourceColumns(parsed) = BothTimesPresent(parse_in)
        /\ \A i \in 1 .. Len(parse_in) : parse_in[i].In_Room # EMPTY /\ parse_in[i].Out_Room # EMPTY

\* a row with a null time has been dropped and the other row kept
NullRowDroppedReached ==
    /\ pc = "parsed" /\ ~raised
    /\ Len(parse_in) = 2 /\ Len(parsed) = 1
    /\ parse_in[1].In_Room = NULL
    /\ SourceColumns(parsed) = <<parse_in[2]>>

\* the column-selection step stores the rows without a null in Date, In Room
\* or Out Room, when it stores
Step1DropsNullRows ==
    (pc = "step1" /\ has_crna) =>
        Len(df) = Cardinality({i \in 1 .. Len(uploaded) :
                                  /\ uploaded[i].Date.kind # "null"
                                  /\ uploaded[i].In_Room.kind # "null"
                                  /\ uploaded[i].Out_Room.kind # "null"})

C22_Sce5DayBuckets ==
    pc = "sce5" =>
        \A k \in 1 .. Len(df_full), h \in Hours :
            LET start == df_full[k].In_Room
                end == IF df_full[k].Out_Room < start
                       THEN df_full[k].Out_Room + MinPerDay ELSE df_full[k].Out_Room
                window_start == h * MinPerHour
                window_end == (h + 1) * MinPerHour
            IN df_full[k].hour[h]
                  = df_full[k].Count * Max(0, Min(end, window_end) - Max(start, window_start))

\* C23: on the duration month page every weekday row of the normalized
\* heatmap holds its hourly sums divided by the number of dates of
\* [min source Date, max source Date] on that same weekday (0 when there is
\* none), rounded; the page does not raise, whatever weekdays have data.
C23_DurationMonthDivisor ==
    (pc = "sce4" /\ ~BucketizerRaises(df)) =>
        /\ ~raised
        /\ {heatmap[k].weekday : k \in 1 .. Len(heatmap)}
              = {duration[i].weekday : i \in 1 .. Len(duration)}
        /\ \A k \in 1 .. Len(heatmap), h \in Hours :
              LET w == heatmap[k].weekday
                  n == WeekdaySum(duration, w, h)
                  day_count == CalendarCount(MinDate(df), MaxDate(df), w)
                  cell == heatmap[k].hour[h]
              IN IF day_count = 0 THEN cell = 0
                 ELSE /\ 2 * (cell * day_count * MinPerHour - n) <= day_count * MinPerHour
                      /\ 2 * (n - cell * day_count * MinPerHour) <= day_count * MinPerHour

\* when the page does not raise and every date of the matrix lies in the
\* range, every row is divided by the count of its own weekday
DurationMonthDivisorInRange ==
    (pc = "sce4" /\ ~BucketizerRaises(df) /\ ~raised
        /\ \A i \in 1 .. Len(duration) : duration[i].Date <= MaxDate(df)) =>
        C23_DurationMonthDivisor

\* the rows of hm_matrix of the weekdays without a record in the selected
\* week are zero
ZeroRowsWithoutRecord ==
    \A k \in 1 .. Len(hm_matrix) :
        (\A i \in 1 .. Len(df) :
            ~(/\ strftime_A(df[i].Date) = hm_matrix[k].weekday
              /\ ExpectedWeek(dt_day(df[i].Date)) = selected_wk))
          => \A h \in Hours : hm_matrix[k].hour[h] = 0

\* C24: on the duration week page hm_matrix has, for every week label, the
\* 7 rows Sunday..Saturday with 24 integer columns, the rows of the weekdays
\* without a record in that week being zero.
C24_DurationWeekSevenRows ==
    pc = "sce5_page" =>
        /\ ~raised
        /\ selected_wk \in {_WEEKS_LIST[i] : i \in 1 .. Len(_WEEKS_LIST)}
        /\ CanonicalRows(hm_matrix)
        /\ ZeroRowsWithoutRecord

\* applied to a pandas frame, the functions of the page give the 7 rows for
\* every week label
PandasFrameSevenRows ==
    pc = "sce5" =>
        /\ selected_wk \in {_WEEKS_LIST[i] : i \in 1 .. Len(_WEEKS_LIST)}
        /\ CanonicalRows(hm_matrix)
        /\ ZeroRowsWithoutRecord

----------------------------------------------------------------------------
(* The session *)

\* the page a run is dispatched to
Page == Home_page(session_state).page

AnalysisPages == {"sce2", "sce3", "sce4", "sce5"}

SubmitStoresCleaned ==
    [][(Page = "step1" /\ pc = "form" /\ pc' = "choices") =>
          /\ has_crna'
          /\ total_errors' = 0
          /\ df' = step1_cleaned(step1_select(uploaded', cc'))]_vars


\* C26: the page of the session is always one that Home.py dispatches to a
\* page function.
C26_PageDispatched == Page \in Dispatched

\* the page is a dispatched one in every session without the key
\* preprocessed_result
DemandPageDispatched ==
    "preprocessed_result" \notin DOMAIN session_state => Page \in Dispatched

\* the stored mode, "" when there is none
Mode(s) == IF "analysis_type" \in DOMAIN s THEN s.analysis_type ELSE ""

ModePageConsistent ==
    /\ Page \in {"sce2", "sce3"} => Mode(session_state) = "presence"
    /\ Page \in {"sce4", "sce5"} => Mode(session_state) = "duration"

\* a step from one analysis page to another one
GoKeepsMode ==
    (Page \in AnalysisPages /\ Page' \in AnalysisPages /\ Page' # Page) =>
        /\ Mode(session_state') = Mode(session_state)
        /\ <<Page, Page'>> \in {<<"sce2", "sce3">>, <<"sce3", "sce2">>,
                                <<"sce4", "sce5">>, <<"sce5", "sce4">>}

\* C27: on sce2 and sce3 the stored analysis_type is presence, on sce4 and
\* sce5 it is duration; the Go to Week and Go to Month buttons lead to the
\* page of the other view of the same mode and leave analysis_type alone.
C27_ModePage == []ModePageConsistent /\ [][GoKeepsMode]_vars

\* the week page of presence displayed after Go to Week Analysis of sce2:
\* Next leads to sce3 only when the stored view is week
C27_Witness ==
    /\ Page = "sce3"
    /\ pc = "page"
    /\ session_state.analysis_view = "month"
    /\ session_state.analysis_type = "presence"

\* the week page of duration run after Go to Week Analysis of sce4
DurationWeekReachedByGo ==
    /\ Page = "sce5"
    /\ pc = "exception"
    /\ session_state.analysis_view = "month"
    /\ session_state.analysis_type = "duration"

DataOnAnalysisPages == Page \in AnalysisPages => has_crna

\* the choices and the Next button of the column-selection step are
\* displayed with crna_data stored only
NextOfferedWithData == (Page = "step1" /\ pc = "choices") => has_crna

\* a step that removes crna_data selects the upload page
RemovedWithUpload == (has_crna /\ ~has_crna') => Page' = "Upload"

\* C28: on sce2, sce3, sce4 and sce5 the session holds crna_data; Next is
\* offered only once crna_data is stored; a Back button removes crna_data
\* only together with selecting the upload page.
C28_DataPresent ==
    /\ [](DataOnAnalysisPages /\ NextOfferedWithData)
    /\ [][RemovedWithUpload]_vars

\* Back clicked on an analysis page of presence: the upload page is
\* selected, crna_data is gone, the results of the page are still there
C28_Witness ==
    /\ Page = "Upload"
    /\ pc = "rerun"
    /\ ~has_crna
    /\ presence # <<>>
    /\ "analysis_type" \notin DOMAIN session_state

----------------------------------------------------------------------------
(* Presence and duration of one table *)

\* the duration matrix d against the presence matrix p of the same table:
\* the same dates, a duration of at most one hour per unit of presence, and
\* a duration above 0 exactly where the presence is above 0
DurationWithinPresence(d, p) ==
    /\ DatesOf(d) = DatesOf(p)
    /\ \A date \in DatesOf(p), h \in Hours :
          /\ Cell(d, date, h) <= MinPerHour * Cell(p, date, h)
          /\ Cell(d, date, h) > 0 <=> Cell(p, date, h) > 0

AllCountsAtLeastOne(table) == \A k \in 1 .. Len(table) : table[k].Count >= 1

BothComputed == pc \in {"both", "rows", "reordered", "split"} /\ ~raised

\* C29: for a table with every Count >= 1, the duration matrix and the
\* presence matrix have the same dates, every duration cell is at most the
\* presence cell (in hours), and it is above 0 exactly when the presence
\* cell is.
C29_PresenceBoundsDuration ==
    (BothComputed /\ AllCountsAtLeastOne(df)) =>
        /\ DurationWithinPresence(duration, presence)
        /\ \A k \in 1 .. Len(related) :
              DurationWithinPresence(related[k].duration, related[k].presence)

\* a 24-hour stay 23:30-23:30 of Count MaxCount: half an hour of duration
\* per unit of presence at 23 h of both days, a full hour in between
C29_Witness ==
    /\ pc = "both" /\ ~raised
    /\ df = <<Row(0, 1410, 1410, MaxCount)>>
    /\ DatesOf(presence) = {0, 1}
    /\ Cell(presence, 0, 23) = MaxCount /\ Cell(duration, 0, 23) = 30 * MaxCount
    /\ Cell(presence, 1, 23) = MaxCount /\ Cell(duration, 1, 23) = 30 * MaxCount
    /\ Cell(presence, 1, 0) = MaxCount /\ Cell(duration, 1, 0) = MinPerHour * MaxCount
    /\ Cell(presence, 0, 22) = 0 /\ Cell(duration, 0, 22) = 0

----------------------------------------------------------------------------
(* Additivity of the bucketizers *)

RECURSIVE SumOfCells(_, _, _)
SumOfCells(matrices, d, h) ==
    IF matrices = <<>> THEN 0
    ELSE Cell(Head(matrices), d, h) + SumOfCells(Tail(matrices), d, h)

\* the matrix m has the dates of the matrices ms, each once and ascending,
\* with the weekday of the date, and each cell is the sum of their cells
IsCellwiseSum(m, ms) ==
    /\ DatesOf(m) = UNION {DatesOf(ms[k]) : k \in 1 .. Len(ms)}
    /\ \A k \in 1 .. Len(m) - 1 : m[k].Date < m[k + 1].Date
    /\ \A k \in 1 .. Len(m) :
          /\ m[k].weekday = strftime_A(m[k].Date)
          /\ \A h \in Hours : m[k].hour[h] = SumOfCells(ms, m[k].Date, h)

\* C30: the presence matrix and the duration matrix of a table are the
\* cell-wise sums of the matrices of its rows; they are the same for the
\* rows in any order, and for a row of Count c given as c rows of Count 1.
C30_Additivity ==
    ~raised =>
        /\ pc = "rows" =>
              /\ IsCellwiseSum(presence, [k \in 1 .. Len(related) |-> related[k].presence])
              /\ IsCellwiseSum(duration, [k \in 1 .. Len(related) |-> related[k].duration])
        /\ pc \in {"reordered", "split"} =>
              /\ related[1].presence = presence
              /\ related[1].duration = duration

\* two rows of Count above 1 that share the hour from 08:00 on one date,
\* bucketized one by one
C30_Witness ==
    /\ pc = "rows" /\ ~raised
    /\ Len(df) = 2 /\ Len(related) = 2
    /\ df[1].Date = df[2].Date
    /\ df[1].Count > 1
    /\ df[1] # df[2]
    /\ Cell(related[1].presence, df[1].Date, 8) > 0
    /\ Cell(related[2].presence, df[1].Date, 8) > 0
    /\ Cell(presence, df[1].Date, 8) = df[1].Count + df[2].Count
    /\ Cell(duration, df[1].Date, 8) > Cell(related[1].duration, df[1].Date, 8)

\* the rows of a two-row table in the other order
ReorderedReached ==
    /\ pc = "reordered" /\ ~raised
    /\ Len(df) = 2 /\ df[1] # df[2]
    /\ related[1].table = <<df[2], df[1]>>

\* a row of Count 2 given as two rows of Count 1
SplitReached ==
    /\ pc = "split" /\ ~raised
    /\ Len(related[1].table) > Len(df)
    /\ \A k \in 1 .. Len(related[1].table) : related[1].table[k].Count = 1

====
